---- MODULE Spec2Model ----
(***************************************************************************)
(* A model of the booking chatbot: the slot-filling BookingAgent           *)
(* (src/agent.py) and the CSV-backed Recommender (src/recommender.py) as   *)
(* its front ends (src/main.py, src/streamlit_app.py) drive them.          *)
(*                                                                         *)
(* Python values are tagged records: None, str, int, list.  A str is the   *)
(* sequence of its characters, except a string of the shape YYYY-MM-DD     *)
(* (ISO_RE), which is written by its three numbers.  A datetime.date is    *)
(* the triple <<year, month, day>>; date arithmetic goes through the       *)
(* proleptic Gregorian ordinal, as datetime's does, and leaves the range   *)
(* date.min .. date.max by raising.  A raised exception is the value Raise.*)
(***************************************************************************)
EXTENDS Integers, Sequences, FiniteSets, TLC

VARIABLES
    now,            \* the date datetime.now(ZoneInfo(tz)) gives
    booking_info,   \* BookingAgent.booking_info: field -> Python value
    ret,            \* what the last BookingAgent.run() returned
    extraction,     \* how the extraction call of the last run() went
    op,             \* the last operation performed on the agent, or the
                    \* handler of the front end that took the last input
    listings_csv,   \* listings.csv: the availability cell of each catalog row
    df,             \* each conversation's Recommender.df: its availability column
    reservations_csv, \* reservations.csv: the rows written, oldest first
    last,           \* the last call on a Recommender and what it gave
    reserved,       \* per conversation, the listings its current Recommender
                    \* object has reserved with success
    batch,          \* the updates of the last direct _normalize_and_update call
    batch_raised,   \* whether that call raised
    phrase,         \* the text of the last direct _resolve_relative_date,
                    \* _ensure_iso_date or try_parse_selection call
    resolved,       \* what that call returned
    utcnow,         \* the second datetime.utcnow() falls in
    inflight,       \* per conversation, the reserve call that has read
                    \* reservations.csv and not yet written it
    session         \* a front end's conversation state: the locals of main()
                    \* (main.py lines 46-50), st.session_state (streamlit_app.py)

agentVars == <<now, booking_info, ret, extraction, op>>

bookingVars == <<listings_csv, df, reservations_csv, last, reserved>>

\* the direct calls of the agent's helpers
callVars == <<batch, batch_raised, phrase, resolved>>

\* the clock and the reserve calls under way
stepVars == <<utcnow, inflight>>

frontVars == <<session>>

vars == <<now, booking_info, ret, extraction, op, listings_csv, df, reservations_csv, last, reserved,
          batch, batch_raised, phrase, resolved, utcnow, inflight, session>>

-----------------------------------------------------------------------------
(* Python values *)

PyNone == [t |-> "none"]

PyStr(s) == [t |-> "str", chars |-> s]

PyInt(n) == [t |-> "int", num |-> n]

PyList(l) == [t |-> "list", items |-> l]

\* a str matching ISO_RE, by its numbers: "2025-08-20" is IsoStr(<<2025, 8, 20>>)
IsoStr(ymd) == [t |-> "iso", ymd |-> ymd]

\* a date phrase, by its words
Phrase(w) == [t |-> "phrase", words |-> w]

\* an exception propagating out of the call
Raise == [t |-> "raise"]

\* Python truthiness (`if x`, `not x`)
Truthy(x) ==
    CASE x.t = "none" -> FALSE
      [] x.t = "str" -> x.chars # <<>>
      [] x.t = "int" -> x.num # 0
      [] x.t = "list" -> x.items # <<>>
      [] OTHER -> TRUE

-----------------------------------------------------------------------------
(* str operations, on sequences of characters *)

Whitespace == {" ", "\t", "\n"}

Digits == <<"0", "1", "2", "3", "4", "5", "6", "7", "8", "9">>

UpperCase == <<"A", "B", "C", "D", "E", "F", "G", "H", "I", "J", "K", "L", "M", "N", "O", "P", "Q", "R", "S", "T", "U", "V", "W", "X", "Y", "Z">>

LowerCase == <<"a", "b", "c", "d", "e", "f", "g", "h", "i", "j", "k", "l", "m", "n", "o", "p", "q", "r", "s", "t", "u", "v", "w", "x", "y", "z">>

IndexOf(c, alphabet) ==
    IF \E i \in 1..Len(alphabet) : alphabet[i] = c
    THEN CHOOSE i \in 1..Len(alphabet) : alphabet[i] = c
    ELSE 0

\* the lower-case letter of each upper-case letter
LowerOf == [c \in {UpperCase[i] : i \in 1..Len(UpperCase)} |-> LowerCase[IndexOf(c, UpperCase)]]

\* str.lower()
RECURSIVE Lower(_)
Lower(s) ==
    IF s = <<>> THEN <<>>
    ELSE <<IF Head(s) \in DOMAIN LowerOf THEN LowerOf[Head(s)] ELSE Head(s)>> \o Lower(Tail(s))

RECURSIVE LStrip(_)
LStrip(s) ==
    IF s # <<>> /\ Head(s) \in Whitespace THEN LStrip(Tail(s)) ELSE s

RECURSIVE RStrip(_)
RStrip(s) ==
    IF s # <<>> /\ s[Len(s)] \in Whitespace THEN RStrip(SubSeq(s, 1, Len(s) - 1)) ELSE s

\* str.strip()
Strip(s) == RStrip(LStrip(s))

\* `sub in s`
Contains(sub, s) ==
    \E i \in 1..(Len(s) - Len(sub) + 1) : SubSeq(s, i, i + Len(sub) - 1) = sub

\* the value of each decimal digit
DigitOf == [c \in {Digits[i] : i \in 1..Len(Digits)} |-> IndexOf(c, Digits) - 1]

\* str.isdigit()
IsDigit(s) == s # <<>> /\ \A i \in 1..Len(s) : s[i] \in DOMAIN DigitOf

RECURSIVE DigitsValue(_)
DigitsValue(s) ==
    IF s = <<>> THEN 0
    ELSE 10 * DigitsValue(SubSeq(s, 1, Len(s) - 1)) + DigitOf[s[Len(s)]]

\* str.split(","), the pieces in order
RECURSIVE SplitComma(_)
SplitComma(s) ==
    IF \E i \in 1..Len(s) : s[i] = ","
    THEN LET i == CHOOSE k \in 1..Len(s) : s[k] = "," /\ \A j \in 1..(k - 1) : s[j] # ","
         IN  <<SubSeq(s, 1, i - 1)>> \o SplitComma(SubSeq(s, i + 1, Len(s)))
    ELSE <<s>>

-----------------------------------------------------------------------------
(* datetime.date *)

MINYEAR == 1

MAXYEAR == 9999

IsLeap(y) == y % 4 = 0 /\ (y % 100 # 0 \/ y % 400 = 0)

DaysInMonth(y, m) ==
    IF m = 2 THEN (IF IsLeap(y) THEN 29 ELSE 28)
    ELSE IF m \in {4, 6, 9, 11} THEN 30 ELSE 31

DaysBeforeYear(y) ==
    (y - 1) * 365 + ((y - 1) \div 4) - ((y - 1) \div 100) + ((y - 1) \div 400)

\* the days of a common year before each month
DAYS_BEFORE_MONTH == <<0, 31, 59, 90, 120, 151, 181, 212, 243, 273, 304, 334>>

DaysBeforeMonth(y, m) == DAYS_BEFORE_MONTH[m] + (IF m > 2 /\ IsLeap(y) THEN 1 ELSE 0)

\* date(y, m, d) is constructed, rather than raising ValueError
ValidDate(ymd) ==
    /\ ymd[1] \in MINYEAR..MAXYEAR
    /\ ymd[2] \in 1..12
    /\ ymd[3] \in 1..DaysInMonth(ymd[1], ymd[2])

\* date.toordinal()
ToOrdinal(ymd) == DaysBeforeYear(ymd[1]) + DaysBeforeMonth(ymd[1], ymd[2]) + ymd[3]

\* date.max.toordinal()
MaxOrdinal == ToOrdinal(<<MAXYEAR, 12, 31>>)

\* date.fromordinal(n), for 1 <= n <= MaxOrdinal
FromOrdinal(n) ==
    LET n0 == n - 1
        n400 == n0 \div 146097
        r400 == n0 % 146097
        n100 == r400 \div 36524
        r100 == r400 % 36524
        n4 == r100 \div 1461
        r4 == r100 % 1461
        n1 == r4 \div 365
        r1 == r4 % 365
        year == n400 * 400 + 1 + n100 * 100 + n4 * 4 + n1
    IN  IF n1 = 4 \/ n100 = 4 THEN <<year - 1, 12, 31>>
        ELSE LET guess == (r1 + 50) \div 32
                 m == IF DaysBeforeMonth(year, guess) > r1 THEN guess - 1 ELSE guess
             IN  <<year, m, r1 - DaysBeforeMonth(year, m) + 1>>

\* no date: the date operation raised (OverflowError, ValueError)
NoDate == <<>>

\* d + timedelta(days=n): a date, or NoDate (OverflowError) outside date.min..date.max
AddDays(ymd, n) ==
    LET o == ToOrdinal(ymd) + n
    IN  IF o >= 1 /\ o <= MaxOrdinal THEN FromOrdinal(o) ELSE NoDate

-----------------------------------------------------------------------------
(* src/agent.py: the date resolver *)

REQUIRED_FIELDS == <<"location", "checkin_date", "checkout_date", "property_type", "amenities", "number_of_guests">>

NUMBER_WORDS == <<
    << <<"z", "e", "r", "o">>, 0 >>, << <<"o", "n", "e">>, 1 >>, << <<"a">>, 1 >>,
    << <<"a", "n">>, 1 >>, << <<"t", "w", "o">>, 2 >>, << <<"t", "h", "r", "e", "e">>, 3 >>,
    << <<"f", "o", "u", "r">>, 4 >>, << <<"f", "i", "v", "e">>, 5 >>, << <<"s", "i", "x">>, 6 >>,
    << <<"s", "e", "v", "e", "n">>, 7 >>, << <<"e", "i", "g", "h", "t">>, 8 >>,
    << <<"n", "i", "n", "e">>, 9 >>, << <<"t", "e", "n">>, 10 >>,
    << <<"e", "l", "e", "v", "e", "n">>, 11 >>, << <<"t", "w", "e", "l", "v", "e">>, 12 >> >>

_to_iso(d) == IsoStr(d)

\* the int the token stands for, or None
_word_to_int(token) ==
    LET tok == Strip(Lower(token))
    IN  IF IsDigit(tok) THEN PyInt(DigitsValue(tok))
        ELSE IF \E i \in 1..Len(NUMBER_WORDS) : NUMBER_WORDS[i][1] = tok
             THEN PyInt(NUMBER_WORDS[CHOOSE i \in 1..Len(NUMBER_WORDS) : NUMBER_WORDS[i][1] = tok][2])
             ELSE PyNone

\* timedelta(days=n) accepts at most this many days (OverflowError beyond)
MaxTimedeltaDays == 999999999

\* a variant of AddMonths that keeps the day of month whatever the month:
\* C17_OffsetsAddToReference does not hold of it
AddMonthsUnclamped(ymd, n) ==
    <<ymd[1] + (((ymd[2] - 1) + n) \div 12), (((ymd[2] - 1) + n) % 12) + 1, ymd[3]>>

\* now + relativedelta(months=+n): the day of month kept, clamped to the month's
\* last day; ValueError when the year leaves MINYEAR..MAXYEAR
AddMonths(ymd, n) ==
    LET total == (ymd[2] - 1) + n
        y == ymd[1] + (total \div 12)
        m == (total % 12) + 1
    IN  IF y \in MINYEAR..MAXYEAR
        THEN <<y, m, IF ymd[3] > DaysInMonth(y, m) THEN DaysInMonth(y, m) ELSE ymd[3]>>
        ELSE NoDate

\* dateutil's parse(s, fuzzy=True, default=now) on a text that holds no date:
\* ParserError, which _resolve_relative_date turns into None
du_parse(s, nowd) == PyNone

\* _to_iso of the date a date operation gave, the operation's exception kept
IsoOrRaise(d) == IF d = NoDate THEN Raise ELSE _to_iso(d)

\* now + timedelta(days=n), now + timedelta(weeks=n), now + relativedelta(months=+n)
OffsetDate(nowd, n, unit) ==
    CASE unit = "day" -> IF n > MaxTimedeltaDays THEN NoDate ELSE AddDays(nowd, n)
      [] unit = "week" -> IF 7 * n > MaxTimedeltaDays THEN NoDate ELSE AddDays(nowd, 7 * n)
      [] unit = "month" -> AddMonths(nowd, n)

\* lines 107-133: a valid YYYY-MM-DD text is returned as it is, anything else
\* goes to dateutil
ResolveAbsolute(text, nowd) ==
    IF text.t = "iso" /\ ValidDate(text.ymd) THEN text ELSE du_parse(text, nowd)

\* lines 61-77, the count token read: an int gives the offset date, None falls through
ResolveOffset(text, n, nowd) ==
    IF n.t = "int" THEN IsoOrRaise(OffsetDate(nowd, n.num, text.words[3]))
    ELSE ResolveAbsolute(text, nowd)

\* the weekday objects MO .. SU of dateutil, by the number date.weekday() gives
\* that day (Monday 0 .. Sunday 6), under each name the resolver knows
WEEKDAY_MAP == <<
    << <<"m", "o", "n", "d", "a", "y">>, 0 >>,
    << <<"m", "o", "n">>, 0 >>,
    << <<"t", "u", "e", "s", "d", "a", "y">>, 1 >>,
    << <<"t", "u", "e">>, 1 >>,
    << <<"t", "u", "e", "s">>, 1 >>,
    << <<"w", "e", "d", "n", "e", "s", "d", "a", "y">>, 2 >>,
    << <<"w", "e", "d">>, 2 >>,
    << <<"t", "h", "u", "r", "s", "d", "a", "y">>, 3 >>,
    << <<"t", "h", "u">>, 3 >>,
    << <<"t", "h", "u", "r">>, 3 >>,
    << <<"t", "h", "u", "r", "s">>, 3 >>,
    << <<"f", "r", "i", "d", "a", "y">>, 4 >>,
    << <<"f", "r", "i">>, 4 >>,
    << <<"s", "a", "t", "u", "r", "d", "a", "y">>, 5 >>,
    << <<"s", "a", "t">>, 5 >>,
    << <<"s", "u", "n", "d", "a", "y">>, 6 >>,
    << <<"s", "u", "n">>, 6 >> >>

\* `wd in WEEKDAY_MAP`
InWeekdayMap(wd) == \E i \in 1..Len(WEEKDAY_MAP) : WEEKDAY_MAP[i][1] = wd

\* WEEKDAY_MAP[wd].weekday
WeekdayOf(wd) == WEEKDAY_MAP[CHOOSE i \in 1..Len(WEEKDAY_MAP) : WEEKDAY_MAP[i][1] = wd][2]

\* date.weekday(): Monday is 0; ordinal 1 (0001-01-01) is a Monday
Weekday(ymd) == (ToOrdinal(ymd) + 6) % 7

\* now + relativedelta(weekday=W(+1)): relativedelta moves forward by
\* (7 - now.weekday() + W) % 7 days, which is no day at all when now is a W
AddRelativedeltaWeekday(nowd, w) == AddDays(nowd, (7 - Weekday(nowd) + w) % 7)

\* the list of lines 95-96
FullWeekdayNames == <<
    <<"m", "o", "n", "d", "a", "y">>,
    <<"t", "u", "e", "s", "d", "a", "y">>,
    <<"w", "e", "d", "n", "e", "s", "d", "a", "y">>,
    <<"t", "h", "u", "r", "s", "d", "a", "y">>,
    <<"f", "r", "i", "d", "a", "y">>,
    <<"s", "a", "t", "u", "r", "d", "a", "y">>,
    <<"s", "u", "n", "d", "a", "y">> >>

\* full.startswith(prefix)
StartsWith(full, prefix) == Len(full) >= Len(prefix) /\ SubSeq(full, 1, Len(prefix)) = prefix

\* wd[:3]
FirstThree(wd) == SubSeq(wd, 1, IF Len(wd) < 3 THEN Len(wd) ELSE 3)

\* lines 95-98: the index of the first full name that starts with wd[:3]
TargetIdx(wd) ==
    (CHOOSE i \in 1..Len(FullWeekdayNames) :
        /\ StartsWith(FullWeekdayNames[i], FirstThree(wd))
        /\ \A j \in 1..(i - 1) : ~StartsWith(FullWeekdayNames[j], FirstThree(wd))) - 1

\* a variant of AddThisWeekday that never gives the reference date (not the
\* code's): C28_ThisWeekdayOnOrAfter does not hold of it
AddThisWeekdayAfter(nowd, target_idx) == AddDays(nowd, ((target_idx - Weekday(nowd) - 1) % 7) + 1)

\* lines 99-100: now + timedelta(days=(target_idx - now.weekday()) % 7)
AddThisWeekday(nowd, target_idx) == AddDays(nowd, (target_idx - Weekday(nowd)) % 7)

\* lines 84-105, the text "next <wd>", "this <wd>", "on <wd>" or the bare "<wd>":
\* a word that is no weekday name falls through to the branches after
ResolveWeekday(text, nowd) ==
    IF ~InWeekdayMap(text.words[2]) THEN ResolveAbsolute(text, nowd)
    ELSE IF text.words[1] \in {"this", "on"}
    THEN IsoOrRaise(AddThisWeekday(nowd, TargetIdx(text.words[2])))
    ELSE IsoOrRaise(AddRelativedeltaWeekday(nowd, WeekdayOf(text.words[2])))

\* The phrases are written by their words: <<"today">>, <<"tomorrow">>,
\* <<"offset", count token, "day" | "week" | "month">> for "[in] <count> day(s)",
\* <<"next", wd>>, <<"this", wd>>, <<"on", wd>> and <<"weekday", wd>> for a
\* weekday word after "next", "this", "on" or on its own, and <<"garbage">> for
\* a text with no date in it.
_resolve_relative_date(text, nowd) ==
    IF text.t = "phrase" /\ text.words[1] = "today" THEN _to_iso(nowd)
    ELSE IF text.t = "phrase" /\ text.words[1] = "tomorrow" THEN IsoOrRaise(AddDays(nowd, 1))
    ELSE IF text.t = "phrase" /\ text.words[1] = "offset"
    THEN ResolveOffset(text, _word_to_int(text.words[2]), nowd)
    ELSE IF text.t = "phrase" /\ text.words[1] \in {"next", "this", "on", "weekday"}
    THEN ResolveWeekday(text, nowd)
    ELSE ResolveAbsolute(text, nowd)

-----------------------------------------------------------------------------
(* src/agent.py: BookingAgent *)

\* BookingAgent.__init__
EmptyBookingInfo == [k \in {REQUIRED_FIELDS[i] : i \in 1..Len(REQUIRED_FIELDS)} |-> PyNone]

\* `x not in (None, "", [])`
NotEmptyValue(x) ==
    ~(x.t = "none" \/ (x.t = "str" /\ x.chars = <<>>) \/ (x.t = "list" /\ x.items = <<>>))

_is_complete(info) ==
    \A i \in 1..Len(REQUIRED_FIELDS) : NotEmptyValue(info[REQUIRED_FIELDS[i]])

_missing_fields(info) ==
    SelectSeq(REQUIRED_FIELDS, LAMBDA k : ~Truthy(info[k]))

\* json.dumps of the finalized payload
_final_json(info) ==
    [kind |-> "final",
     data |-> [location |-> info["location"],
               date_checkin |-> info["checkin_date"],
               date_checkout |-> info["checkout_date"],
               property_type |-> info["property_type"],
               amenities |-> info["amenities"],
               number_of_guests |-> info["number_of_guests"]]]

\* [x.strip() for x in items if x.strip()]
RECURSIVE StripNonEmpty(_)
StripNonEmpty(items) ==
    IF items = <<>> THEN <<>>
    ELSE (IF Strip(Head(items)) # <<>> THEN <<Strip(Head(items))>> ELSE <<>>)
         \o StripNonEmpty(Tail(items))

_parse_amenities(value) ==
    CASE value.t = "list" ->
            IF StripNonEmpty(value.items) # <<>> THEN PyList(StripNonEmpty(value.items)) ELSE PyNone
      [] value.t = "str" ->
            IF StripNonEmpty(SplitComma(value.chars)) # <<>>
            THEN PyList(StripNonEmpty(SplitComma(value.chars))) ELSE PyNone
      [] OTHER -> PyNone

\* date.__lt__: year, month, day compared in that order
DateBefore(a, b) ==
    \/ a[1] < b[1]
    \/ a[1] = b[1] /\ a[2] < b[2]
    \/ a[1] = b[1] /\ a[2] = b[2] /\ a[3] < b[3]

\* None, a canonical date string, or Raise when the resolver raises
_ensure_iso_date(value, nowd) ==
    IF ~Truthy(value) THEN PyNone
    ELSE IF value.t = "iso" /\ ValidDate(value.ymd)
            /\ (value.ymd[1] < nowd[1] - 1 => ValidDate(<<nowd[1], value.ymd[2], value.ymd[3]>>))
            /\ (value.ymd[1] < nowd[1] - 1 /\ DateBefore(<<nowd[1], value.ymd[2], value.ymd[3]>>, nowd)
                    => ValidDate(<<nowd[1] + 1, value.ymd[2], value.ymd[3]>>))
    THEN (IF value.ymd[1] < nowd[1] - 1
          THEN (IF DateBefore(<<nowd[1], value.ymd[2], value.ymd[3]>>, nowd)
                THEN _to_iso(<<nowd[1] + 1, value.ymd[2], value.ymd[3]>>)
                ELSE _to_iso(<<nowd[1], value.ymd[2], value.ymd[3]>>))
          ELSE _to_iso(value.ymd))
    ELSE _resolve_relative_date(value, nowd)

\* int(x): the int, or Raise (ValueError, TypeError)
IntOf(x) ==
    CASE x.t = "int" -> x
      [] x.t = "str" ->
            LET s == Strip(x.chars)
            IN  IF IsDigit(s) THEN PyInt(DigitsValue(s))
                ELSE IF Len(s) > 1 /\ s[1] = "-" /\ IsDigit(Tail(s)) THEN PyInt(0 - DigitsValue(Tail(s)))
                ELSE IF Len(s) > 1 /\ s[1] = "+" /\ IsDigit(Tail(s)) THEN PyInt(DigitsValue(Tail(s)))
                ELSE Raise
      [] OTHER -> Raise

\* a key the batch carries with a truthy value
Carries(updates, k) == k \in DOMAIN updates /\ Truthy(updates[k])

\* lines 201-202
UpdateLocation(info, updates) ==
    IF Carries(updates, "location")
    THEN [info EXCEPT !["location"] = PyStr(Strip(updates["location"].chars))]
    ELSE info

\* a variant of StoreDate without the `if iso:` of lines 206 and 211, which
\* stores the None of an unresolved date: C11_UnresolvedDateNotStored does not
\* hold of it
StoreDateUnchecked(info, field, iso) ==
    IF iso.t = "raise" THEN [info |-> info, raised |-> TRUE]
    ELSE [info |-> [info EXCEPT ![field] = iso], raised |-> FALSE]

\* lines 206-207, 211-212: the date stored when it is truthy; the record after,
\* and whether _ensure_iso_date raised
StoreDate(info, field, iso) ==
    IF iso.t = "raise" THEN [info |-> info, raised |-> TRUE]
    ELSE IF Truthy(iso) THEN [info |-> [info EXCEPT ![field] = iso], raised |-> FALSE]
    ELSE [info |-> info, raised |-> FALSE]

\* lines 204-212, for either date field
UpdateDate(info, updates, field, nowd) ==
    IF Carries(updates, field)
    THEN StoreDate(info, field, _ensure_iso_date(updates[field], nowd))
    ELSE [info |-> info, raised |-> FALSE]

\* lines 214-218
UpdatePropertyType(info, updates) ==
    IF Carries(updates, "property_type")
    THEN LET pt == Lower(updates["property_type"].chars)
         IN  [info EXCEPT !["property_type"] =
                    PyStr(IF Contains(<<"h", "o", "t", "e", "l">>, pt) THEN <<"h", "o", "t", "e", "l">> ELSE pt)]
    ELSE info

\* lines 220-221
UpdateAmenities(info, updates) ==
    IF "amenities" \in DOMAIN updates
    THEN [info EXCEPT !["amenities"] = _parse_amenities(updates["amenities"])]
    ELSE info

\* lines 226-230: int() raised, the word-to-int fallback
StoreGuestsWord(info, n) ==
    IF n.t = "int" THEN [info EXCEPT !["number_of_guests"] = n] ELSE info

\* lines 224-230
StoreGuests(info, raw, n) ==
    IF n.t = "int" THEN [info EXCEPT !["number_of_guests"] = n]
    ELSE IF raw.t = "str" THEN StoreGuestsWord(info, _word_to_int(raw.chars))
    ELSE info

\* lines 223-230
UpdateGuests(info, updates) ==
    IF "number_of_guests" \in DOMAIN updates /\ updates["number_of_guests"].t # "none"
    THEN StoreGuests(info, updates["number_of_guests"], IntOf(updates["number_of_guests"]))
    ELSE info

\* lines 242-245: checkin + 1 day stored, unless the addition raised
MoveCheckout(info, d) ==
    IF d = NoDate THEN info ELSE [info EXCEPT !["checkout_date"] = _to_iso(d)]

\* lines 232-245: checkout moved to checkin + 1 day when it is not after checkin;
\* an exception in the block (the date after date.max) is swallowed
RepairCheckout(info) ==
    IF Truthy(info["checkin_date"]) /\ Truthy(info["checkout_date"])
       /\ ValidDate(info["checkin_date"].ymd) /\ ValidDate(info["checkout_date"].ymd)
       /\ ~DateBefore(info["checkin_date"].ymd, info["checkout_date"].ymd)
    THEN MoveCheckout(info, AddDays(info["checkin_date"].ymd, 1))
    ELSE info

\* lines 214-245
UpdateRest(info, updates) ==
    [info |-> RepairCheckout(UpdateGuests(UpdateAmenities(UpdatePropertyType(info, updates), updates), updates)),
     raised |-> FALSE]

\* lines 209-245, r the outcome of the checkin step
UpdateFromCheckout(r, updates) ==
    IF r.raised THEN r ELSE UpdateRest(r.info, updates)

\* lines 204-245, r the outcome of the location step
UpdateFromCheckin(r, updates, nowd) ==
    IF r.raised THEN r
    ELSE UpdateFromCheckout(UpdateDate(r.info, updates, "checkout_date", nowd), updates)

\* The record after the batch and whether the call raised: an exception leaves
\* the fields already written as they are and skips the rest, the repair included.
_normalize_and_update(info, updates, nowd) ==
    IF DOMAIN updates = {} THEN [info |-> info, raised |-> FALSE]
    ELSE UpdateFromCheckin(UpdateDate(UpdateLocation(info, updates), updates, "checkin_date", nowd),
                           updates, nowd)

InSeq(x, seq) == \E i \in 1..Len(seq) : seq[i] = x

\* a variant of QuestionFor that asks in the order of REQUIRED_FIELDS, amenities
\* before number_of_guests: C9_AsksFirstInQuestionOrder does not hold of it
QuestionForRequiredOrder(missing) ==
    IF InSeq("location", missing)
    THEN "Where would you like to stay (city or area)?"
    ELSE IF InSeq("checkin_date", missing) /\ InSeq("checkout_date", missing)
    THEN "What are your check-in and check-out dates? You can say things like 'next Friday to Sunday.'"
    ELSE IF InSeq("checkin_date", missing)
    THEN "What's your check-in date?"
    ELSE IF InSeq("checkout_date", missing)
    THEN "What's your check-out date?"
    ELSE IF InSeq("property_type", missing)
    THEN "What type of property do you prefer (e.g., apartment, house, hotel, cabin, studio, penthouse)?"
    ELSE IF InSeq("amenities", missing)
    THEN "Any must-have amenities (e.g., wifi, parking, pool, kitchen)? You can list a few."
    ELSE IF InSeq("number_of_guests", missing)
    THEN "How many guests will be staying?"
    ELSE "Tell me a bit more so I can finish your booking details."

\* lines 251-266, missing the list _missing_fields gave
QuestionFor(missing) ==
    IF InSeq("location", missing)
    THEN "Where would you like to stay (city or area)?"
    ELSE IF InSeq("checkin_date", missing) /\ InSeq("checkout_date", missing)
    THEN "What are your check-in and check-out dates? You can say things like 'next Friday to Sunday.'"
    ELSE IF InSeq("checkin_date", missing)
    THEN "What's your check-in date?"
    ELSE IF InSeq("checkout_date", missing)
    THEN "What's your check-out date?"
    ELSE IF InSeq("property_type", missing)
    THEN "What type of property do you prefer (e.g., apartment, house, hotel, cabin, studio, penthouse)?"
    ELSE IF InSeq("number_of_guests", missing)
    THEN "How many guests will be staying?"
    ELSE IF InSeq("amenities", missing)
    THEN "Any must-have amenities (e.g., wifi, parking, pool, kitchen)? You can list a few."
    ELSE "Tell me a bit more so I can finish your booking details."

\* lines 248-266: the text of the local keep-alive question
_local_next_question(info) == QuestionFor(_missing_fields(info))

\* the fields each local question asks for
QuestionTargets(text) ==
    CASE text = "Where would you like to stay (city or area)?" -> {"location"}
      [] text = "What are your check-in and check-out dates? You can say things like 'next Friday to Sunday.'" -> {"checkin_date", "checkout_date"}
      [] text = "What's your check-in date?" -> {"checkin_date"}
      [] text = "What's your check-out date?" -> {"checkout_date"}
      [] text = "What type of property do you prefer (e.g., apartment, house, hotel, cabin, studio, penthouse)?" -> {"property_type"}
      [] text = "How many guests will be staying?" -> {"number_of_guests"}
      [] text = "Any must-have amenities (e.g., wifi, parking, pool, kitchen)? You can list a few." -> {"amenities"}
      [] OTHER -> {}

LocalReply(info) == [kind |-> "local", question |-> _local_next_question(info)]

\* lines 335-347: the tool calls applied in order; an exception ends the loop
RECURSIVE ApplyCalls(_, _, _)
ApplyRest(r, calls, nowd) ==
    IF r.raised THEN r ELSE ApplyCalls(r.info, calls, nowd)

ApplyCalls(info, calls, nowd) ==
    IF calls = <<>> THEN [info |-> info, raised |-> FALSE]
    ELSE ApplyRest(_normalize_and_update(info, Head(calls), nowd), Tail(calls), nowd)

\* lines 358-386: the follow-up call raised, or gave `content` (None or a str)
FollowupReply(info, content) ==
    IF content.t = "str" /\ Strip(content.chars) # <<>>
    THEN [kind |-> "llm", text |-> Strip(content.chars)]
    ELSE LocalReply(info)

-----------------------------------------------------------------------------
(* what the extraction service and the follow-up generator may give *)

City == <<"M", "t", "l">>

LocationRaws == {PyStr(<<" ", " ">>), PyStr(<<" ">> \o City \o <<" ">>)}

FarDays == <<"4", "0", "0", "0", "0", "0", "0">>

DateRaws == {IsoStr(<<2025, 8, 19>>), IsoStr(<<2025, 8, 20>>), IsoStr(<<9999, 12, 31>>),
             Phrase(<<"garbage">>), Phrase(<<"offset", FarDays, "day">>)}

PropertyTypeRaws == {PyStr(<<"B", "i", "g", " ", "H", "o", "t", "e", "l">>)}

AmenitiesRaws == {PyNone, PyList(<< <<" ", "w", "i", "f", "i">> >>)}

GuestsRaws == {PyInt(0), PyStr(<<"t", "w", "o">>)}

RawsOf(k) ==
    CASE k = "location" -> LocationRaws
      [] k \in {"checkin_date", "checkout_date"} -> DateRaws
      [] k = "property_type" -> PropertyTypeRaws
      [] k = "amenities" -> AmenitiesRaws
      [] k = "number_of_guests" -> GuestsRaws

FieldNames == {REQUIRED_FIELDS[i] : i \in 1..Len(REQUIRED_FIELDS)}

\* a batch that gives both dates
BothDates(a, b) == [k \in {"checkin_date", "checkout_date"} |-> IF k = "checkin_date" THEN a ELSE b]

\* a batch that gives all six fields
AllFields(a, b) ==
    [k \in FieldNames |->
        CASE k = "location" -> PyStr(City)
          [] k = "checkin_date" -> a
          [] k = "checkout_date" -> b
          [] k = "property_type" -> PyStr(<<"L", "o", "f", "t">>)
          [] k = "amenities" -> PyStr(<<"w", "i", "f", "i">>)
          [] k = "number_of_guests" -> PyInt(2)]

\* the update batches of one tool call: the empty batch, every batch of one
\* field, batches of both dates and a batch of all six fields
Batches ==
    {<<>>}
    \cup UNION {{[x \in {k} |-> r] : r \in RawsOf(k)} : k \in FieldNames}
    \cup {BothDates(IsoStr(<<2025, 8, 20>>), IsoStr(<<2025, 8, 19>>)),
          BothDates(IsoStr(<<2025, 8, 20>>), Phrase(<<"offset", FarDays, "day">>)),
          AllFields(IsoStr(<<2025, 8, 19>>), IsoStr(<<2025, 8, 20>>))}

\* the most tool calls one extraction response carries
MaxCalls == 1

RECURSIVE SeqsUpTo(_, _)
SeqsUpTo(S, n) ==
    IF n = 0 THEN {<<>>}
    ELSE SeqsUpTo(S, n - 1) \cup {Append(q, x) : q \in {p \in SeqsUpTo(S, n - 1) : Len(p) = n - 1}, x \in S}

ToolCallSeqs == SeqsUpTo(Batches, MaxCalls)

\* message.content of the follow-up response
FollowupContents == {PyNone, PyStr(<<" ">>), PyStr(<<" ", "{", "}">>)}

NowDates == {<<2025, 8, 18>>}

-----------------------------------------------------------------------------
(* BookingAgent.run, lines 268-390, and the agent's replacement on restart *)

\* a variant of RunComplete that drops a slot on the way: C2_CompleteStaysComplete
\* does not hold of it
RunCompleteDropsSlot ==
    /\ _is_complete(booking_info)
    /\ booking_info' = [booking_info EXCEPT !["amenities"] = PyNone]
    /\ ret' = _final_json(booking_info)
    /\ extraction' = "skipped"
    /\ op' = "run"
    /\ UNCHANGED now
    /\ UNCHANGED <<bookingVars, callVars, stepVars, frontVars>>

\* lines 270-271: already complete
RunComplete ==
    /\ _is_complete(booking_info)
    /\ ret' = _final_json(booking_info)
    /\ extraction' = "skipped"
    /\ op' = "run"
    /\ UNCHANGED <<now, booking_info>>
    /\ UNCHANGED <<bookingVars, callVars, stepVars, frontVars>>

\* a variant of RunExtractionFails without the handler of lines 388-390:
\* C8_ExtractionFailureAsksLocally does not hold of it
RunExtractionFailsUnhandled ==
    /\ ~_is_complete(booking_info)
    /\ ret' = [kind |-> "raised"]
    /\ extraction' = "error"
    /\ op' = "run"
    /\ UNCHANGED <<now, booking_info>>
    /\ UNCHANGED <<bookingVars, callVars, stepVars, frontVars>>

\* lines 313-331 raise, lines 388-390 answer
RunExtractionFails ==
    /\ ~_is_complete(booking_info)
    /\ ret' = LocalReply(booking_info)
    /\ extraction' = "error"
    /\ op' = "run"
    /\ UNCHANGED <<now, booking_info>>
    /\ UNCHANGED <<bookingVars, callVars, stepVars, frontVars>>

\* the replies of lines 349-386 to a record left incomplete
Questions(info) ==
    {LocalReply(info)} \cup {FollowupReply(info, content) : content \in FollowupContents}

\* lines 349-390, r the outcome of the tool-call loop
FinishRun(r) ==
    /\ booking_info' = r.info
    /\ IF r.raised
       THEN ret' = LocalReply(r.info) /\ extraction' = "update_raised"
       ELSE /\ extraction' = "ok"
            /\ IF _is_complete(r.info)
               THEN ret' = _final_json(r.info)
               ELSE ret' \in Questions(r.info)

\* lines 333-386: the tool calls applied, then the payload or one question
RunExtracts ==
    /\ ~_is_complete(booking_info)
    /\ \E calls \in ToolCallSeqs : FinishRun(ApplyCalls(booking_info, calls, now))
    /\ op' = "run"
    /\ UNCHANGED now
    /\ UNCHANGED <<bookingVars, callVars, stepVars, frontVars>>

\* main.py lines 58-67, streamlit_app.py lines 75-76: a fresh BookingAgent
Restart ==
    /\ booking_info' = EmptyBookingInfo
    /\ ret' = [kind |-> "none"]
    /\ extraction' = "none"
    /\ op' = "restart"
    /\ UNCHANGED now
    /\ UNCHANGED <<bookingVars, callVars, stepVars, frontVars>>

-----------------------------------------------------------------------------
(* _normalize_and_update called batch after batch on one BookingAgent *)

\* the values a batch may give each key
UpdateLocationRaws == {PyNone, PyStr(<<>>), PyStr(<<" ", " ">>), PyStr(<<" ">> \o City \o <<" ">>)}

UpdateDateRaws ==
    {IsoStr(<<2025, 8, 20>>), IsoStr(<<2025, 8, 22>>), IsoStr(<<2025, 2, 30>>), Phrase(<<"garbage">>)}

UpdateAmenitiesRaws ==
    {PyNone, PyList(<<>>), PyList(<< <<" ", "w", "i", "f", "i">>, <<" ">> >>),
     PyStr(<<" ", ",", " ">>), PyInt(7)}

UpdateGuestsRaws ==
    {PyNone, PyInt(0), PyStr(<<"t", "w", "o">>), PyStr(<<"-", "3">>), PyStr(<<"a", "b", "c">>)}

UpdateRawsOf(k) ==
    CASE k = "location" -> UpdateLocationRaws
      [] k \in {"checkin_date", "checkout_date"} -> UpdateDateRaws
      [] k = "property_type" -> PropertyTypeRaws
      [] k = "amenities" -> UpdateAmenitiesRaws
      [] k = "number_of_guests" -> UpdateGuestsRaws

\* a batch of a checkin_date and an amenities value
CheckinAndAmenities(a, b) ==
    [k \in {"checkin_date", "amenities"} |-> IF k = "checkin_date" THEN a ELSE b]

\* the empty batch, every batch of one key, batches of both dates and a batch
\* whose checkin_date raises in the resolver
UpdateBatches ==
    {<<>>}
    \cup UNION {{[x \in {k} |-> r] : r \in UpdateRawsOf(k)} : k \in FieldNames}
    \cup {BothDates(IsoStr(<<2025, 8, 20>>), IsoStr(<<2025, 8, 19>>)),
          BothDates(IsoStr(<<2025, 8, 22>>), Phrase(<<"garbage">>)),
          BothDates(IsoStr(<<2025, 8, 20>>), Phrase(<<"offset", FarDays, "day">>)),
          CheckinAndAmenities(Phrase(<<"offset", FarDays, "day">>), PyNone)}

\* the record and the outcome of the call kept
FinishUpdate(u, r) ==
    /\ booking_info' = r.info
    /\ batch' = u
    /\ batch_raised' = r.raised

\* BookingAgent._normalize_and_update(updates), lines 197-245
NormalizeAndUpdate ==
    /\ \E u \in UpdateBatches : FinishUpdate(u, _normalize_and_update(booking_info, u, now))
    /\ UNCHANGED <<now, ret, extraction, op, phrase, resolved>>
    /\ UNCHANGED <<bookingVars, stepVars, frontVars>>

-----------------------------------------------------------------------------
(* _resolve_relative_date called on a text and a reference date *)

\* the reference dates: the week from Monday 2025-08-18 to Sunday 2025-08-24,
\* and ends of months and of a year
RefDates ==
    {<<2025, 8, d>> : d \in 18..24}
    \cup {<<2025, 1, 31>>, <<2024, 1, 31>>, <<2024, 2, 29>>, <<2025, 10, 31>>, <<2025, 12, 31>>}

WeekdayWords == {WEEKDAY_MAP[i][1] : i \in 1..Len(WEEKDAY_MAP)}

\* the counts of an offset: the words of NUMBER_WORDS and some in digits
CountTokens ==
    {NUMBER_WORDS[i][1] : i \in 1..Len(NUMBER_WORDS)}
    \cup {<<"0">>, <<"3">>, <<"1", "2">>, <<"4", "5">>}

RelativeTexts ==
    {Phrase(<<"today">>), Phrase(<<"tomorrow">>), Phrase(<<"garbage">>)}
    \cup {Phrase(<<lead, wd>>) : lead \in {"next", "this", "on", "weekday"}, wd \in WeekdayWords}
    \cup {Phrase(<<"offset", n, unit>>) : n \in CountTokens, unit \in {"day", "week", "month"}}

\* canonical date strings of valid dates, of years before, around and after
\* the reference years, 29 February among them
IsoTexts ==
    {IsoStr(ymd) :
        ymd \in {t \in {<<y, md[1], md[2]>> :
                            y \in {2020, 2022, 2023, 2024, 2025, 2026},
                            md \in {<<1, 15>>, <<2, 29>>, <<8, 18>>, <<8, 21>>, <<12, 31>>}} :
                    ValidDate(t)}}

\* the call has not returned yet
Pending == [t |-> "pending"]

\* the call of _ensure_iso_date has not returned yet
PendingEnsure == [t |-> "pending_ensure"]

\* _resolve_relative_date(text, now), lines 51-133, returns
Resolve ==
    /\ resolved = Pending
    /\ resolved' = _resolve_relative_date(phrase, now)
    /\ UNCHANGED <<now, booking_info, ret, extraction, op, batch, batch_raised, phrase>>
    /\ UNCHANGED <<bookingVars, stepVars, frontVars>>

\* BookingAgent._ensure_iso_date(value), lines 176-195, returns
EnsureIso ==
    /\ resolved = PendingEnsure
    /\ resolved' = _ensure_iso_date(phrase, now)
    /\ UNCHANGED <<now, booking_info, ret, extraction, op, batch, batch_raised, phrase>>
    /\ UNCHANGED <<bookingVars, stepVars, frontVars>>

-----------------------------------------------------------------------------
(* src/recommender.py: the catalog and recommend *)

Available == <<"A", "v", "a", "i", "l", "a", "b", "l", "e">>

Booked == <<"B", "o", "o", "k", "e", "d">>

\* The rows of listings.csv but for their availability cell, which df and
\* listings_csv hold.  A rating is written in tenths.
CATALOG == <<
    [listing_id |-> 101, name |-> "Vieux Port Inn",
     location |-> <<"O", "l", "d", " ", "M", "o", "n", "t", "r", "e", "a", "l">>,
     price_per_night |-> <<"$", "1", "2", "0", ".", "5", "0">>,
     bedrooms |-> 1, rating |-> 48, reviews_count |-> 10,
     amenities |-> <<"W", "i", "-", "F", "i", ",", " ", "F", "r", "e", "e", " ", "p", "a", "r", "k", "i", "n", "g">>,
     property_type |-> <<"H", "o", "t", "e", "l">>],
    [listing_id |-> 102, name |-> "Plateau Loft",
     location |-> <<"M", "o", "n", "t", "r", "e", "a", "l", " ", "N", "-", "D", "-", "G">>,
     price_per_night |-> <<"1", ",", "2", "0", "0">>,
     bedrooms |-> 2, rating |-> 45, reviews_count |-> 20,
     amenities |-> <<"p", "o", "o", "l">>,
     property_type |-> <<"A", "p", "a", "r", "t", "m", "e", "n", "t">>],
    [listing_id |-> 103, name |-> "Mile End Flat",
     location |-> <<"M", "o", "n", "t", "r", "e", "a", "l">>,
     price_per_night |-> <<"8", "0">>,
     bedrooms |-> 2, rating |-> 45, reviews_count |-> 20,
     amenities |-> <<"G", "y", "m", ",", " ", "H", "o", "t", " ", "t", "u", "b">>,
     property_type |-> <<"A", "p", "a", "r", "t", "m", "e", "n", "t">>] >>

Rows == 1..Len(CATALOG)

\* the rows with df["listing_id"] == listing_id
RowsOfListing(listing_id) == {i \in Rows : CATALOG[i].listing_id = listing_id}

\* a pattern of AMENITY_SYNONYMS: the literal texts it matches, and whether it
\* stands between word boundaries (\b)
Pattern(alts, bounded) == [alts |-> alts, bounded |-> bounded]

AMENITY_SYNONYMS == <<
    << <<"w", "i", "f", "i">>,
       << Pattern({<<"w", "i", "f", "i">>}, TRUE),
          Pattern({<<"w", "i", "f", "i">>, <<"w", "i", "-", "f", "i">>}, TRUE),
          Pattern({<<"w", "i", "r", "e", "l", "e", "s", "s", " ", "i", "n", "t", "e", "r", "n", "e", "t">>}, FALSE) >> >>,
    << <<"g", "y", "m">>,
       << Pattern({<<"g", "y", "m">>}, TRUE),
          Pattern({<<"f", "i", "t", "n", "e", "s", "s", " ", "c", "e", "n", "t", "e", "r">>}, FALSE),
          Pattern({<<"f", "i", "t", "n", "e", "s", "s", " ", "r", "o", "o", "m">>}, FALSE) >> >>,
    << <<"p", "o", "o", "l">>,
       << Pattern({<<"p", "o", "o", "l">>}, TRUE),
          Pattern({<<"s", "w", "i", "m", "m", "i", "n", "g", " ", "p", "o", "o", "l">>}, FALSE) >> >>,
    << <<"h", "o", "t", " ", "t", "u", "b">>,
       << Pattern({<<"h", "o", "t", " ", "t", "u", "b">>}, FALSE),
          Pattern({<<"j", "a", "c", "u", "z", "z", "i">>}, FALSE) >> >>,
    << <<"p", "a", "r", "k", "i", "n", "g">>,
       << Pattern({<<"p", "a", "r", "k", "i", "n", "g">>}, FALSE),
          Pattern({<<"f", "r", "e", "e", " ", "p", "a", "r", "k", "i", "n", "g">>}, FALSE) >> >> >>

\* \w of a lower-cased text
IsWordChar(c) == c \in DOMAIN DigitOf \/ c = "_" \/ \E i \in 1..Len(LowerCase) : LowerCase[i] = c

\* the literal stands at position i of the text
MatchesAt(lit, bounded, text, i) ==
    /\ SubSeq(text, i, i + Len(lit) - 1) = lit
    /\ bounded => /\ (i = 1 \/ ~IsWordChar(text[i - 1]))
                  /\ (i + Len(lit) > Len(text) \/ ~IsWordChar(text[i + Len(lit)]))

\* p.search(t) under re.IGNORECASE
Search(p, t) ==
    \E lit \in p.alts : \E i \in 1..(Len(t) - Len(lit) + 1) : MatchesAt(lit, p.bounded, Lower(t), i)

\* AMENITY_SYNONYMS.get(key, [re.escape(key)])
Variants(key) ==
    IF \E i \in 1..Len(AMENITY_SYNONYMS) : AMENITY_SYNONYMS[i][1] = key
    THEN AMENITY_SYNONYMS[CHOOSE i \in 1..Len(AMENITY_SYNONYMS) : AMENITY_SYNONYMS[i][1] = key][2]
    ELSE << Pattern({key}, FALSE) >>

\* lines 14-21: the patterns of the requested amenities, in order
RECURSIVE _normalize_amenity_patterns(_)
_normalize_amenity_patterns(amenities) ==
    IF amenities = <<>> THEN <<>>
    ELSE Variants(Strip(Lower(Head(amenities)))) \o _normalize_amenity_patterns(Tail(amenities))

\* `x or ""` of a str or None
StrOrEmpty(x) == IF x.t = "str" THEN x.chars ELSE <<>>

\* lines 67-69: the requested amenities as a list
RequestedAmenities(x) ==
    CASE x.t = "list" -> x.items
      [] x.t = "str" -> StripNonEmpty(SplitComma(x.chars))
      [] OTHER -> <<>>

\* lines 72-76
amenity_score(amen_patterns, s) ==
    Cardinality({k \in 1..Len(amen_patterns) : Search(amen_patterns[k], s)})

\* a variant of AvailableRows without the availability filter:
\* C7_NeverRecommendsBooked does not hold of it
AvailableRowsUnfiltered(avail) == Rows

\* lines 47-49: the rows whose availability contains "Available", whatever the case
AvailableRows(avail) == {i \in Rows : Contains(Lower(Available), Lower(avail[i]))}

\* Series.str.contains(pat) searches for pat as a regular expression (regex=True
\* is its default).  Of the patterns, those made of letters, digits, spaces,
\* hyphens and dots are modelled: a dot matches any character but a newline,
\* every other character matches itself.
RegexMatchesAt(pat, s, i) ==
    \A k \in 1..Len(pat) :
        IF pat[k] = "." THEN s[i + k - 1] # "\n" ELSE s[i + k - 1] = pat[k]

\* re.search(pat, s) finds a match
RegexSearch(pat, s) == \E i \in 1..(Len(s) - Len(pat) + 1) : RegexMatchesAt(pat, s, i)

\* lines 52-54: str.contains(loc, case=False)
LocationRows(S, loc) ==
    IF loc # <<>> THEN {i \in S : RegexSearch(Lower(loc), Lower(CATALOG[i].location))} ELSE S

\* lines 59-64: the soft filter keeps its result only when it is not empty
NarrowedOrAll(S, narrowed) == IF narrowed # {} THEN narrowed ELSE S

\* a variant of PropertyTypeRows that keeps the filter's result when it is
\* empty: C19_PropertyTypeIsSoftFilter does not hold of it
PropertyTypeRowsHard(S, pt_req) ==
    IF pt_req # <<>>
    THEN {i \in S : RegexSearch(pt_req, Lower(CATALOG[i].property_type))}
    ELSE S

\* lines 59-64: .str.lower().str.contains(pt_req)
PropertyTypeRows(S, pt_req) ==
    IF pt_req # <<>>
    THEN NarrowedOrAll(S, {i \in S : RegexSearch(pt_req, Lower(CATALOG[i].property_type))})
    ELSE S

\* math.ceil(n / 2)
CeilHalf(n) == 0 - ((0 - n) \div 2)

\* lines 86-93
NeededBedrooms(n) == IF CeilHalf(n) > 1 THEN CeilHalf(n) ELSE 1

\* a variant of GuestRows that drops the filter when no row passes it:
\* C20_BedroomsCoverGuests does not hold of it
GuestRowsOrAll(S, guests) ==
    IF Truthy(guests) /\ IntOf(guests).t = "int"
       /\ \E i \in S : CATALOG[i].bedrooms >= NeededBedrooms(IntOf(guests).num)
    THEN {i \in S : CATALOG[i].bedrooms >= NeededBedrooms(IntOf(guests).num)}
    ELSE S

GuestRows(S, guests) ==
    IF Truthy(guests) /\ IntOf(guests).t = "int"
    THEN {i \in S : CATALOG[i].bedrooms >= NeededBedrooms(IntOf(guests).num)}
    ELSE S

\* a sort with the rating as the first key (not the code's)
SortsBeforeRatingFirst(i, j, pats) ==
    LET ki == <<CATALOG[i].rating, amenity_score(pats, CATALOG[i].amenities), CATALOG[i].reviews_count>>
        kj == <<CATALOG[j].rating, amenity_score(pats, CATALOG[j].amenities), CATALOG[j].reviews_count>>
    IN  \/ ki[1] > kj[1]
        \/ ki[1] = kj[1] /\ ki[2] > kj[2]
        \/ ki[1] = kj[1] /\ ki[2] = kj[2] /\ ki[3] > kj[3]
        \/ ki = kj /\ i < j

\* row i sorts before row j: more amenity matches, then the higher rating, then
\* more reviews, then the earlier row
SortsBefore(i, j, pats) ==
    LET ki == <<amenity_score(pats, CATALOG[i].amenities), CATALOG[i].rating, CATALOG[i].reviews_count>>
        kj == <<amenity_score(pats, CATALOG[j].amenities), CATALOG[j].rating, CATALOG[j].reviews_count>>
    IN  \/ ki[1] > kj[1]
        \/ ki[1] = kj[1] /\ ki[2] > kj[2]
        \/ ki[1] = kj[1] /\ ki[2] = kj[2] /\ ki[3] > kj[3]
        \/ ki = kj /\ i < j

\* lines 98-104: sort_values
RECURSIVE SortRows(_, _)
SortRows(S, pats) ==
    IF S = {} THEN <<>>
    ELSE LET b == CHOOSE i \in S : \A j \in S \ {i} : SortsBefore(i, j, pats)
         IN  <<b>> \o SortRows(S \ {b}, pats)

\* lines 106-112: a returned record
OutputRow(i, avail) ==
    [listing_id |-> CATALOG[i].listing_id, name |-> CATALOG[i].name,
     location |-> CATALOG[i].location, price_per_night |-> CATALOG[i].price_per_night,
     bedrooms |-> CATALOG[i].bedrooms, rating |-> CATALOG[i].rating,
     reviews_count |-> CATALOG[i].reviews_count, amenities |-> CATALOG[i].amenities,
     property_type |-> CATALOG[i].property_type, availability |-> avail[i]]

\* df_pt.head(top_k)
Head_k(rows, top_k) == SubSeq(rows, 1, IF Len(rows) < top_k THEN Len(rows) ELSE top_k)

\* lines 66-112, S the rows left by the location filter
RankAndCut(S, avail, criteria, pats, top_k) ==
    LET sorted == Head_k(SortRows(GuestRows(PropertyTypeRows(S, Lower(Strip(StrOrEmpty(criteria.property_type)))),
                                            criteria.number_of_guests), pats), top_k)
    IN  [k \in 1..Len(sorted) |-> OutputRow(sorted[k], avail)]

\* Recommender.recommend, on the availability column avail of self.df
recommend(avail, criteria, top_k) ==
    RankAndCut(LocationRows(AvailableRows(avail), Strip(StrOrEmpty(criteria.location))),
               avail, criteria,
               _normalize_amenity_patterns(RequestedAmenities(criteria.amenities)), top_k)

-----------------------------------------------------------------------------
(* src/recommender.py: reserve *)

\* s.replace(",", "")
RECURSIVE WithoutCommas(_)
WithoutCommas(s) ==
    IF s = <<>> THEN <<>>
    ELSE (IF Head(s) = "," THEN <<>> ELSE <<Head(s)>>) \o WithoutCommas(Tail(s))

\* the text from its first digit on
RECURSIVE FromFirstDigit(_)
FromFirstDigit(s) ==
    IF s = <<>> \/ Head(s) \in DOMAIN DigitOf THEN s ELSE FromFirstDigit(Tail(s))

\* the digits at the head of the text
RECURSIVE DigitRun(_)
DigitRun(s) ==
    IF s # <<>> /\ Head(s) \in DOMAIN DigitOf THEN <<Head(s)>> \o DigitRun(Tail(s)) ELSE <<>>

\* the digits after a decimal point at the head of the text, none without a
\* point followed by a digit
FractionRun(s) == IF s # <<>> /\ Head(s) = "." THEN DigitRun(Tail(s)) ELSE <<>>

\* a variant of _parse_price that keeps the commas, so that the number ends
\* at the first of them: C6_SuccessAppendsUnlessWarned does not hold of it
_parse_price_keeping_commas(value) ==
    IF FromFirstDigit(value) = <<>> THEN PyNone
    ELSE [t |-> "float", mant |-> DigitsValue(DigitRun(FromFirstDigit(value))), places |-> 0]

\* float(m.group(1)): the number mant / 10^places
PriceOfMatch(whole, frac) ==
    [t |-> "float", mant |-> DigitsValue(whole \o frac), places |-> Len(frac)]

\* the match of ([0-9]+(?:\.[0-9]+)?) in a text that starts with a digit
PriceAtDigit(s) ==
    PriceOfMatch(DigitRun(s), FractionRun(SubSeq(s, Len(DigitRun(s)) + 1, Len(s))))

\* the first number in a text, or None
PriceIn(s) == IF s = <<>> THEN PyNone ELSE PriceAtDigit(s)

\* lines 23-28, on the text of a price cell
_parse_price(value) == PriceIn(FromFirstDigit(WithoutCommas(value)))

RECURSIVE Pow10(_)
Pow10(n) == IF n = 0 THEN 1 ELSE 10 * Pow10(n - 1)

\* num / den rounded to the nearest integer, a tie to the even one
RoundHalfEven(num, den) ==
    IF 2 * (num % den) < den THEN num \div den
    ELSE IF 2 * (num % den) > den THEN (num \div den) + 1
    ELSE IF (num \div den) % 2 = 0 THEN num \div den
    ELSE (num \div den) + 1

\* line 149, round((price_per_night or 0.0) * nights, 2), in cents; exact for
\* the prices of at most two decimals the catalog holds
EstimatedTotal(price, nights) ==
    IF price.t = "float" THEN RoundHalfEven(price.mant * nights * 100, Pow10(price.places)) ELSE 0

\* lines 30-32 on a YYYY-MM-DD text: the date, or NoDate (ValueError)
_parse_iso(d) == IF d.t = "iso" /\ ValidDate(d.ymd) THEN d.ymd ELSE NoDate

\* lines 152-153: the id is made of the listing id and of the second the call
\* is made in
ReservationId(listing_id, ts) == <<"R", listing_id, ts>>

\* lines 155-176: the reservation record; the row of reservations.csv
Reservation(i, criteria, nights, ts) ==
    [reservation_id |-> ReservationId(CATALOG[i].listing_id, ts),
     listing_id |-> CATALOG[i].listing_id,
     date_checkin |-> criteria.date_checkin,
     date_checkout |-> criteria.date_checkout,
     number_of_guests |-> criteria.number_of_guests,
     nights |-> nights,
     estimated_total |-> EstimatedTotal(_parse_price(CATALOG[i].price_per_night), nights),
     status |-> "Booked"]

\* reserve raises ValueError(message): nothing has been written
Failure(self_df, csv, log, message) ==
    [df |-> self_df, csv |-> csv, log |-> log,
     outcome |-> [kind |-> "error", message |-> message]]

\* what may happen to the two files while reserve writes them
IoOutcomes == {"ok", "catalog_write_fails", "log_write_fails"}

\* a variant of Write that lets the failure of the log write out of reserve
\* (not the code's): C22_LogFailureKeepsBooking does not hold of it
WriteLogFailureRaises(flipped, csv, log, reservation, io) ==
    CASE io = "catalog_write_fails" ->
            [df |-> flipped, csv |-> csv, log |-> log,
             outcome |-> [kind |-> "raised", error |-> "OSError"]]
      [] io = "log_write_fails" ->
            [df |-> flipped, csv |-> flipped, log |-> log,
             outcome |-> [kind |-> "raised", error |-> "OSError"]]
      [] io = "ok" ->
            [df |-> flipped, csv |-> flipped, log |-> Append(log, reservation),
             outcome |-> [kind |-> "reservation", reservation |-> reservation, warning |-> FALSE]]

\* lines 181-198, flipped the column after line 180
Write(flipped, csv, log, reservation, io) ==
    CASE io = "catalog_write_fails" ->
            [df |-> flipped, csv |-> csv, log |-> log,
             outcome |-> [kind |-> "raised", error |-> "OSError"]]
      [] io = "log_write_fails" ->
            [df |-> flipped, csv |-> flipped, log |-> log,
             outcome |-> [kind |-> "reservation", reservation |-> reservation, warning |-> TRUE]]
      [] io = "ok" ->
            [df |-> flipped, csv |-> flipped, log |-> Append(log, reservation),
             outcome |-> [kind |-> "reservation", reservation |-> reservation, warning |-> FALSE]]

\* lines 178-198
Persist(self_df, csv, log, i, reservation, io) ==
    Write([self_df EXCEPT ![i] = Booked], csv, log, reservation, io)

\* a variant of ReserveDates that accepts a checkout on the checkin day:
\* C5_FailedReserveChangesNothing does not hold of it
ReserveDatesNotChecked(self_df, csv, log, i, criteria, checkin, checkout, ts, io) ==
    IF checkin = NoDate \/ checkout = NoDate
    THEN [df |-> self_df, csv |-> csv, log |-> log,
          outcome |-> [kind |-> "raised", error |-> "ValueError"]]
    ELSE IF DateBefore(checkout, checkin)
    THEN Failure(self_df, csv, log, "Checkout date must be after check-in date.")
    ELSE IF checkout = checkin
    THEN Failure([self_df EXCEPT ![i] = Booked], csv, log, "Checkout date must be after check-in date.")
    ELSE Persist(self_df, csv, log, i,
                 Reservation(i, criteria, ToOrdinal(checkout) - ToOrdinal(checkin), ts), io)

\* lines 141-198, the dates parsed
ReserveDates(self_df, csv, log, i, criteria, checkin, checkout, ts, io) ==
    IF checkin = NoDate \/ checkout = NoDate
    THEN [df |-> self_df, csv |-> csv, log |-> log,
          outcome |-> [kind |-> "raised", error |-> "ValueError"]]
    ELSE IF ~DateBefore(checkin, checkout)
    THEN Failure(self_df, csv, log, "Checkout date must be after check-in date.")
    ELSE Persist(self_df, csv, log, i,
                 Reservation(i, criteria, ToOrdinal(checkout) - ToOrdinal(checkin), ts), io)

\* a variant of IsAvailable that lets every listing through:
\* C4_OneSuccessPerListing does not hold of it
IsAvailableAlways(cell) == TRUE

\* line 138: str(row.get("availability", "")).lower() == "available"
IsAvailable(cell) == Lower(cell) = <<"a", "v", "a", "i", "l", "a", "b", "l", "e">>

\* lines 137-198, row i the listing
ReserveRow(self_df, csv, log, i, criteria, ts, io) ==
    IF ~IsAvailable(self_df[i])
    THEN Failure(self_df, csv, log, "Sorry, this listing is no longer available.")
    ELSE ReserveDates(self_df, csv, log, i, criteria,
                      _parse_iso(criteria.date_checkin), _parse_iso(criteria.date_checkout), ts, io)

\* rows.iloc[0]
FirstRow(S) == CHOOSE i \in S : \A j \in S : i <= j

\* Recommender.reserve on the availability column self_df, the files csv
\* (listings.csv) and log (reservations.csv): what the three hold after the
\* call, and what the call gave
reserve(self_df, csv, log, listing_id, criteria, ts, io) ==
    IF RowsOfListing(listing_id) = {}
    THEN Failure(self_df, csv, log, "Listing not found.")
    ELSE ReserveRow(self_df, csv, log, FirstRow(RowsOfListing(listing_id)), criteria, ts, io)

-----------------------------------------------------------------------------
(* the conversations: each front-end session holds a Recommender of its own *)

Conversations == {"c1", "c2"}

\* top_k of the front ends' recommend calls
TOP_K == 5

\* the listing ids a reserve call may carry: those of the first two listings
\* of the catalog and one that is not in it
ListingIds == {CATALOG[1].listing_id, CATALOG[2].listing_id, CATALOG[Len(CATALOG)].listing_id + 1}

\* a finalized payload
Criteria(checkin, checkout, amenities, guests) ==
    [location |-> PyStr(<<"m", "o", "n", "t", "r", "e", "a", "l">>),
     date_checkin |-> IsoStr(checkin),
     date_checkout |-> IsoStr(checkout),
     property_type |-> PyStr(<<"h", "o", "t", "e", "l">>),
     amenities |-> PyList(<<amenities>>),
     number_of_guests |-> PyInt(guests)]

\* the payloads the front ends hold as last_criteria: a stay of three nights
\* across a month's end, and one whose checkout is on the checkin day
CriteriaSet ==
    {Criteria(<<2025, 8, 30>>, <<2025, 9, 2>>, <<"w", "i", "f", "i">>, 2),
     Criteria(<<2025, 8, 20>>, <<2025, 8, 20>>, <<"p", "o", "o", "l">>, 4)}

\* the most rows reservations.csv is let to hold
MaxLog == 2

\* main.py line 40, streamlit_app.py lines 17-18: listings.csv read
BookingStart ==
    /\ listings_csv = [i \in Rows |-> Available]
    /\ df = [c \in Conversations |-> [i \in Rows |-> Available]]
    /\ reservations_csv = <<>>
    /\ last = [conv |-> "none", op |-> "init"]
    /\ reserved = [c \in Conversations |-> {}]

\* main.py lines 144-164, streamlit_app.py lines 342-367, r what reserve gave
FinishReserve(c, listing_id, criteria, io, r) ==
    /\ df' = [df EXCEPT ![c] = r.df]
    /\ listings_csv' = r.csv
    /\ reservations_csv' = r.log
    /\ last' = [conv |-> c, op |-> "reserve", listing_id |-> listing_id, criteria |-> criteria,
                io |-> io, outcome |-> r.outcome]
    /\ reserved' = [reserved EXCEPT ![c] =
                        IF r.outcome.kind = "reservation" THEN @ \cup {listing_id} ELSE @]

\* conversation c calls reserve
Reserve(c) ==
    /\ Len(reservations_csv) < MaxLog
    /\ \E listing_id \in ListingIds, criteria \in CriteriaSet, io \in IoOutcomes :
            FinishReserve(c, listing_id, criteria, io,
                          reserve(df[c], listings_csv, reservations_csv, listing_id, criteria, utcnow, io))
    /\ UNCHANGED <<agentVars, callVars, stepVars, frontVars>>

\* conversation c calls recommend: main.py lines 79 and 100, streamlit_app.py line 264
Recommend(c) ==
    /\ \E criteria \in CriteriaSet :
            last' = [conv |-> c, op |-> "recommend", criteria |-> criteria, top_k |-> TOP_K,
                     outcome |-> [kind |-> "recs", recs |-> recommend(df[c], criteria, TOP_K)]]
    /\ UNCHANGED <<listings_csv, df, reservations_csv, reserved>>
    /\ UNCHANGED <<agentVars, callVars, stepVars, frontVars>>

\* a payload by its location, property type, amenities and number of guests
SearchCriteria(location, property_type, amenities, guests) ==
    [location |-> location,
     date_checkin |-> IsoStr(<<2025, 8, 30>>),
     date_checkout |-> IsoStr(<<2025, 9, 2>>),
     property_type |-> property_type,
     amenities |-> amenities,
     number_of_guests |-> guests]

\* locations that several listings, one listing or no listing carry, one
\* written with dots, and no location
SearchLocations ==
    {PyStr(<<"M", "o", "n", "t", "r", "e", "a", "l">>), PyStr(<<"o", "l", "d">>),
     PyStr(<<"L", "a", "v", "a", "l">>), PyStr(<<"N", ".", "D", ".", "G">>), PyStr(<<>>)}

\* property types as the agent stores them (lower case): of one listing, of
\* no listing, and none
SearchPropertyTypes ==
    {PyStr(<<"h", "o", "t", "e", "l">>), PyStr(<<"a", "p", "a", "r", "t">>),
     PyStr(<<"c", "a", "b", "i", "n">>), PyNone}

\* guest counts that every listing, one listing or no listing has the bedrooms
\* for, and none
SearchGuests == {PyInt(2), PyInt(3), PyInt(4), PyInt(5), PyNone}

\* an amenity that one listing has, no amenity, and three amenities of which
\* one listing has two and another has one under two of its names
SearchAmenities ==
    {PyList(<< <<"p", "o", "o", "l">> >>), PyList(<<>>),
     PyList(<< <<"p", "a", "r", "k", "i", "n", "g">>, <<"g", "y", "m">>, <<"h", "o", "t", " ", "t", "u", "b">> >>)}

SearchCriteriaSet ==
    {SearchCriteria(l, p, a, g) : l \in SearchLocations, p \in SearchPropertyTypes,
                                  a \in SearchAmenities, g \in SearchGuests}

\* top_k of a recommend call: one that cuts the list of the catalog's listings,
\* and the front ends'
SearchTopK == {2, TOP_K}

\* the recommend call of conversation c returns
RecommendReturns(c) ==
    /\ last.op = "recommend_call"
    /\ last.conv = c
    /\ last' = [conv |-> c, op |-> "recommend", criteria |-> last.criteria, top_k |-> last.top_k,
                outcome |-> [kind |-> "recs", recs |-> recommend(df[c], last.criteria, last.top_k)]]
    /\ UNCHANGED <<listings_csv, df, reservations_csv, reserved>>
    /\ UNCHANGED <<agentVars, callVars, stepVars, frontVars>>

\* main.py line 40, streamlit_app.py lines 17-18: listings.csv, some of its
\* listings booked already, has been read by each conversation's Recommender,
\* and a conversation calls recommend with a search payload
SearchStart ==
    /\ listings_csv \in [Rows -> {Available, Booked}]
    /\ df = [c \in Conversations |-> listings_csv]
    /\ reservations_csv = <<>>
    /\ last \in {[conv |-> c, op |-> "recommend_call", criteria |-> k, top_k |-> n] :
                    c \in Conversations, k \in SearchCriteriaSet, n \in SearchTopK}
    /\ reserved = [c \in Conversations |-> {}]

\* streamlit_app.py lines 75-77: reset_all gives conversation c a new
\* Recommender, which reads listings.csv
NewRecommender(c) ==
    /\ df' = [df EXCEPT ![c] = listings_csv]
    /\ reserved' = [reserved EXCEPT ![c] = {}]
    /\ last' = [conv |-> c, op |-> "new"]
    /\ UNCHANGED <<listings_csv, reservations_csv>>
    /\ UNCHANGED <<agentVars, callVars, stepVars, frontVars>>

\* streamlit_app.py lines 158-174: the listings of the cleared rows made
\* Available again in listings.csv
Unbooked(csv, prev, also_unbook) ==
    IF also_unbook /\ prev # <<>>
    THEN [i \in Rows |->
            IF \E k \in 1..Len(prev) : prev[k].listing_id = CATALOG[i].listing_id
            THEN Available ELSE csv[i]]
    ELSE csv

\* lines 143-179, csv the catalog file after the reset
FinishReset(c, csv) ==
    /\ listings_csv' = csv
    /\ df' = [df EXCEPT ![c] = csv]

\* streamlit_app.py lines 143-179: the admin of conversation c resets the
\* reservations, and its Recommender is replaced
AdminReset(c) ==
    /\ \E also_unbook \in BOOLEAN :
            FinishReset(c, Unbooked(listings_csv, reservations_csv, also_unbook))
    /\ reservations_csv' = <<>>
    /\ reserved' = [reserved EXCEPT ![c] = {}]
    /\ last' = [conv |-> c, op |-> "admin_reset"]
    /\ UNCHANGED <<agentVars, callVars, stepVars, frontVars>>

\* no reserve call is under way
Idle == [step |-> "idle"]

\* the payload of the calls that interleave: the stay of three nights
StayCriteria == {Criteria(<<2025, 8, 30>>, <<2025, 9, 2>>, <<"w", "i", "f", "i">>, 2)}

\* the last second of the clock
MaxClock == 1

\* a second passes
Tick ==
    /\ utcnow < MaxClock
    /\ utcnow' = utcnow + 1
    /\ UNCHANGED inflight
    /\ UNCHANGED <<agentVars, bookingVars, callVars, frontVars>>

\* recommender.py lines 129-186: the reserve call of conversation c checks the
\* listing and the dates, flips the listing, writes listings.csv and reads
\* reservations.csv; a call that raises or whose log write fails ends here
ReserveReadsLog(c) ==
    /\ inflight[c] = Idle
    /\ \E listing_id \in ListingIds, criteria \in StayCriteria, io \in {"ok"} :
            LET r == reserve(df[c], listings_csv, reservations_csv, listing_id, criteria, utcnow, io)
            IN  IF r.outcome.kind = "reservation" /\ ~r.outcome.warning
                THEN /\ df' = [df EXCEPT ![c] = r.df]
                     /\ listings_csv' = r.csv
                     /\ inflight' = [inflight EXCEPT ![c] =
                                        [step |-> "log_read", listing_id |-> listing_id,
                                         criteria |-> criteria, io |-> io,
                                         out |-> r.log, outcome |-> r.outcome]]
                     /\ UNCHANGED <<reservations_csv, last, reserved, utcnow>>
                ELSE /\ FinishReserve(c, listing_id, criteria, io, r)
                     /\ UNCHANGED stepVars
    /\ UNCHANGED <<agentVars, callVars, frontVars>>

\* recommender.py lines 192-198: the call writes the rows it read and its own
\* row to reservations.csv, and returns the reservation
ReserveWritesLog(c) ==
    /\ inflight[c] # Idle
    /\ reservations_csv' = inflight[c].out
    /\ last' = [conv |-> c, op |-> "reserve", listing_id |-> inflight[c].listing_id,
                criteria |-> inflight[c].criteria, io |-> inflight[c].io,
                outcome |-> inflight[c].outcome]
    /\ reserved' = [reserved EXCEPT ![c] = @ \cup {inflight[c].listing_id}]
    /\ inflight' = [inflight EXCEPT ![c] = Idle]
    /\ UNCHANGED <<listings_csv, df, utcnow>>
    /\ UNCHANGED <<agentVars, callVars, frontVars>>

-----------------------------------------------------------------------------
(* src/main.py and src/streamlit_app.py: the conversation of a front end *)

FrontEnds == {"cli", "streamlit"}

\* main.py lines 46-50, streamlit_app.py lines 14-35 and 77-85: the state of a
\* conversation that starts.  running is whether the loop of main() is still
\* reading input; selected_listing and show_recs are st.session_state's only.
NewSession(frontend) ==
    [frontend |-> frontend,
     running |-> TRUE,
     stage |-> "collect",
     last_criteria |-> PyNone,
     last_recs |-> <<>>,
     pending_listing_id |-> PyNone,
     selected_listing |-> PyNone,
     customer |-> [name |-> PyNone, email |-> PyNone],
     show_recs |-> FALSE]

\* the index of the first character at or after i that is no whitespace
RECURSIVE SkipWhitespace(_, _)
SkipWhitespace(s, i) ==
    IF i <= Len(s) /\ s[i] \in Whitespace THEN SkipWhitespace(s, i + 1) ELSE i

\* \s+(\d+)$ matched at i: the digits, or <<>>
DigitsToEnd(s, i) ==
    IF SkipWhitespace(s, i) > i /\ IsDigit(SubSeq(s, SkipWhitespace(s, i), Len(s)))
    THEN SubSeq(s, SkipWhitespace(s, i), Len(s))
    ELSE <<>>

\* \s+(id\s+)?(\d+)$ matched at i: group 3, or <<>>
NumberAfterVerb(s, i) ==
    IF DigitsToEnd(s, i) # <<>> THEN DigitsToEnd(s, i)
    ELSE IF SkipWhitespace(s, i) > i
            /\ StartsWith(SubSeq(s, SkipWhitespace(s, i), Len(s)), <<"i", "d">>)
    THEN DigitsToEnd(s, SkipWhitespace(s, i) + 2)
    ELSE <<>>

SelectionVerbs == {<<"b", "o", "o", "k">>, <<"s", "e", "l", "e", "c", "t">>}

\* the places of s where (book|select)\s+(id\s+)?(\d+)$ matches
SelectionMatches(s) ==
    {p \in 1..Len(s) :
        \E v \in SelectionVerbs :
            /\ StartsWith(SubSeq(s, p, Len(s)), v)
            /\ NumberAfterVerb(s, p + Len(v)) # <<>>}

\* group 3 of re.search(r"(book|select)\s+(id\s+)?(\d+)$", s), the leftmost match
SelectionNumber(s) ==
    LET p == CHOOSE q \in SelectionMatches(s) : \A r \in SelectionMatches(s) : q <= r
        v == CHOOSE w \in SelectionVerbs : StartsWith(SubSeq(s, p, Len(s)), w)
    IN  DigitsValue(NumberAfterVerb(s, p + Len(v)))

\* a variant of ByIndex that gives the ordinal instead of the listing's id
\* (not the code's): C37_PendingListingIsInRecs does not hold of it
ByIndexKeepsOrdinal(num, recs) ==
    IF 1 <= num /\ num <= Len(recs) THEN PyInt(num) ELSE PyNone

\* recs[num-1]["listing_id"] when 1 <= num <= len(recs), None otherwise
ByIndex(num, recs) ==
    IF 1 <= num /\ num <= Len(recs) THEN PyInt(recs[num].listing_id) ELSE PyNone

\* main.py lines 23-29: the number after "book" or "select"
SelectionOf(num, recs) ==
    IF \E k \in 1..Len(recs) : recs[k].listing_id = num THEN PyInt(num)
    ELSE ByIndex(num, recs)

\* The superscript two (U+00B2), written by a name: a character that
\* str.isdigit() accepts, that \d does not match and that int() rejects.
SuperscriptTwo == "sup2"

\* s.isdigit(), of a text that may hold superscript digits
IsDigitText(s) == s # <<>> /\ \A i \in 1..Len(s) : s[i] \in DOMAIN DigitOf \cup {SuperscriptTwo}

\* main.py lines 18-34, streamlit_app.py lines 45-61: the listing id, None, or
\* Raise (the ValueError of int(s) at line 31)
try_parse_selection(user_input, recs) ==
    IF SelectionMatches(Lower(Strip(user_input))) # {}
    THEN SelectionOf(SelectionNumber(Lower(Strip(user_input))), recs)
    ELSE IF IsDigit(Lower(Strip(user_input)))
    THEN ByIndex(DigitsValue(Lower(Strip(user_input))), recs)
    ELSE IF IsDigitText(Lower(Strip(user_input)))
    THEN Raise
    ELSE PyNone

\* the numbers typed
SelectionNumbers == {0, 1, 2, 3, 4, 7, 12}

\* str(n), for the numbers typed
DigitsOf(n) ==
    IF n < 10 THEN <<Digits[n + 1]>> ELSE <<Digits[(n \div 10) + 1], Digits[(n % 10) + 1]>>

\* "book N", "select N", "book id N", "select id N"
SelectionCommand(verb, with_id, n) ==
    verb \o <<" ">> \o (IF with_id THEN <<"i", "d", " ">> ELSE <<>>) \o DigitsOf(n)

\* the commands and the bare numbers, commands in capitals and inside a
\* sentence, and texts that select nothing
SelectionTexts ==
    {SelectionCommand(v, b, n) : v \in SelectionVerbs, b \in BOOLEAN, n \in SelectionNumbers}
    \cup {DigitsOf(n) : n \in SelectionNumbers}
    \cup {<<" ", "B", "o", "o", "k", " ", " ", "I", "D", "\t", "7", " ">>,
          <<"p", "l", "s", " ", "b", "o", "o", "k", " ", "2">>,
          <<"n", "o", "t", "e", "b", "o", "o", "k", " ", "2">>,
          <<"b", "o", "o", "k", " ", "2", " ", "p", "l", "s">>,
          <<"b", "o", "o", "k", "2">>,
          <<"b", "o", "o", "k", " ", "i", "d", "7">>,
          <<"b", "o", "o", "k", " ", "t", "w", "o">>,
          <<"b", "o", "o", "k">>,
          <<"2", " ", "3">>,
          <<"p", "o", "o", "l">>,
          <<SuperscriptTwo>>,
          <<"b", "o", "o", "k", " ", SuperscriptTwo>>,
          <<>>}

\* a listing by its id alone
Listing(id) == [listing_id |-> id]

\* the lists a selection is read against: no listing, and lists whose listing
\* ids are and are not among the ordinal numbers of the list
SelectionRecs ==
    {<<>>,
     <<Listing(101), Listing(102)>>,
     <<Listing(2), Listing(1), Listing(7)>>,
     <<Listing(3), Listing(12), Listing(4), Listing(1)>>}

\* the call of try_parse_selection has not returned yet
PendingSelection == [t |-> "pending_selection"]

\* try_parse_selection(user_input, recs) returns
ParseSelection ==
    /\ resolved = PendingSelection
    /\ resolved' = try_parse_selection(phrase.chars, session.last_recs)
    /\ UNCHANGED <<batch, batch_raised, phrase>>
    /\ UNCHANGED <<agentVars, bookingVars, stepVars, frontVars>>

\* a front end in its choose stage, a list of recommendations shown, and the
\* user's text handed to try_parse_selection
SelectStart ==
    /\ batch = <<>>
    /\ batch_raised = FALSE
    /\ phrase \in {PyStr(t) : t \in SelectionTexts}
    /\ resolved = PendingSelection
    /\ session \in {[NewSession(f) EXCEPT !.stage = "choose", !.last_recs = recs] :
                        f \in FrontEnds, recs \in SelectionRecs}

\* the conversation whose front end is followed
User == "c1"

\* user_input.lower() in {"quit", "exit"}, the input stripped
IsQuit(user_input) ==
    Lower(Strip(user_input)) \in {<<"q", "u", "i", "t">>, <<"e", "x", "i", "t">>}

\* user_input.lower() in {"new", "restart"}, the input stripped
IsRestart(user_input) ==
    Lower(Strip(user_input)) \in {<<"n", "e", "w">>, <<"r", "e", "s", "t", "a", "r", "t">>}

\* what BookingAgent.run may give: the record after, the reply, and how the
\* extraction went
RunResult(info, reply, how) == [info |-> info, reply |-> reply, extraction |-> how]

\* agent.py lines 349-390, r the outcome of the tool-call loop
RunResultsAfterCalls(r) ==
    IF r.raised THEN {RunResult(r.info, LocalReply(r.info), "update_raised")}
    ELSE IF _is_complete(r.info) THEN {RunResult(r.info, _final_json(r.info), "ok")}
    ELSE {RunResult(r.info, q, "ok") : q \in Questions(r.info)}

\* BookingAgent.run, agent.py lines 268-390, as RunComplete, RunExtractionFails
\* and RunExtracts have it, the extraction giving one of call_seqs
RunResults(info, nowd, call_seqs) ==
    IF _is_complete(info) THEN {RunResult(info, _final_json(info), "skipped")}
    ELSE {RunResult(info, LocalReply(info), "error")}
         \cup UNION {RunResultsAfterCalls(ApplyCalls(info, calls, nowd)) : calls \in call_seqs}

\* the agent has run
AgentRan(r) ==
    /\ booking_info' = r.info
    /\ ret' = r.reply
    /\ extraction' = r.extraction
    /\ op' = "run"
    /\ UNCHANGED now

\* response.strip().startswith("{") and response.strip().endswith("}"): the
\* payload is a JSON object, no local question starts with a brace
LooksLikeJson(reply) ==
    \/ reply.kind = "final"
    \/ reply.kind = "llm" /\ Head(reply.text) = "{" /\ reply.text[Len(reply.text)] = "}"

\* json.loads("{}"): every criteria.get(...) gives None
EmptyPayload ==
    [location |-> PyNone, date_checkin |-> PyNone, date_checkout |-> PyNone,
     property_type |-> PyNone, amenities |-> PyNone, number_of_guests |-> PyNone]

\* json.loads(response): the payload, the empty object, or Raise
JsonLoads(reply) ==
    IF reply.kind = "final" THEN reply.data
    ELSE IF reply.text = <<"{", "}">> THEN EmptyPayload
    ELSE Raise

\* streamlit_app.py lines 63-67
hide_recs(s) == [s EXCEPT !.show_recs = FALSE, !.last_recs = <<>>, !.pending_listing_id = PyNone]

\* streamlit_app.py lines 69-73
end_flow(s) == [hide_recs(s) EXCEPT !.stage = "idle"]

\* a variant of Restarted that keeps the customer (not the code's):
\* C25_RestartClearsConversation does not hold of it
RestartedKeepsCustomer(s) == [NewSession(s.frontend) EXCEPT !.customer = s.customer]

\* main.py lines 60-65, streamlit_app.py lines 75-85 (reset_all): the
\* conversation state after "restart" or "new"
Restarted(s) == NewSession(s.frontend)

\* main.py lines 73-83 (collect) and 98-100 (choose), streamlit_app.py lines
\* 257-272: the reply looks like JSON, avail the Recommender's availability column
AfterPayload(s, reply, avail) ==
    IF JsonLoads(reply) = Raise
    THEN (IF s.frontend = "cli" /\ s.stage = "choose" THEN [s EXCEPT !.running = FALSE] ELSE s)
    ELSE IF s.frontend = "cli"
    THEN [s EXCEPT !.last_criteria = JsonLoads(reply),
                   !.last_recs = recommend(avail, JsonLoads(reply), TOP_K),
                   !.stage = "choose"]
    ELSE [s EXCEPT !.last_criteria = JsonLoads(reply),
                   !.last_recs = recommend(avail, JsonLoads(reply), TOP_K),
                   !.stage = IF recommend(avail, JsonLoads(reply), TOP_K) # <<>> THEN "choose" ELSE "collect",
                   !.show_recs = recommend(avail, JsonLoads(reply), TOP_K) # <<>>]

\* main.py lines 72-85 and 97-108, streamlit_app.py lines 255-276: the agent
\* has replied
AfterReply(s, reply, avail) ==
    IF LooksLikeJson(reply) THEN AfterPayload(s, reply, avail) ELSE s

\* next((r for r in last_recs if ... listing_id ...), None)
ChosenListing(recs, listing_id) ==
    IF \E k \in 1..Len(recs) : recs[k].listing_id = listing_id
    THEN recs[CHOOSE k \in 1..Len(recs) :
                /\ recs[k].listing_id = listing_id
                /\ \A j \in 1..(k - 1) : recs[j].listing_id # listing_id]
    ELSE PyNone

\* a variant of Selected that goes to the booking confirmation at once (not
\* the code's): C36_ReserveOnlyAfterIdentity does not hold of it
SelectedSkipsIdentity(s, listing_id) ==
    IF s.frontend = "cli"
    THEN [s EXCEPT !.pending_listing_id = PyInt(listing_id), !.stage = "confirm_book"]
    ELSE [hide_recs([s EXCEPT !.selected_listing = ChosenListing(s.last_recs, listing_id)])
            EXCEPT !.stage = "confirm_book"]

\* main.py lines 90-94, streamlit_app.py lines 242-252 and 194-207: a listing
\* has been selected
Selected(s, listing_id) ==
    IF s.frontend = "cli"
    THEN [s EXCEPT !.pending_listing_id = PyInt(listing_id), !.stage = "confirm_name"]
    ELSE [hide_recs([s EXCEPT !.selected_listing = ChosenListing(s.last_recs, listing_id)])
            EXCEPT !.stage = "confirm_name"]

\* "@" in text and "." in text.split("@")[-1]
ValidEmail(text) ==
    \E i \in 1..Len(text) :
        /\ text[i] = "@"
        /\ \A j \in (i + 1)..Len(text) : text[j] # "@"
        /\ \E j \in (i + 1)..Len(text) : text[j] = "."

\* streamlit_app.py lines 87-101: current_listing_id()
current_listing_id(s) ==
    IF s.pending_listing_id # PyNone THEN s.pending_listing_id
    ELSE IF s.selected_listing # PyNone THEN PyInt(s.selected_listing.listing_id)
    ELSE PyNone

\* the listing id a front end hands to reserve
ListingToReserve(s) ==
    IF s.frontend = "cli" THEN s.pending_listing_id ELSE current_listing_id(s)

\* the criteria a front end hands to reserve: a payload that is None raises
\* as one without dates does
CriteriaToReserve(s) == IF s.last_criteria = PyNone THEN EmptyPayload ELSE s.last_criteria

\* a variant of AfterReserve in which a reserve that fails ends the
\* conversation (not the code's): C26_FailedReserveBackToChoose does not hold
\* of it
AfterReserveFailureEnds(s, outcome) ==
    IF outcome.kind = "reservation"
    THEN (IF s.frontend = "cli" THEN [s EXCEPT !.stage = "choose"] ELSE end_flow(s))
    ELSE [s EXCEPT !.running = FALSE]

\* main.py lines 143-164, streamlit_app.py lines 342-367: reserve has returned
\* or raised
AfterReserve(s, outcome) ==
    IF s.frontend = "cli" THEN [s EXCEPT !.stage = "choose"]
    ELSE IF outcome.kind = "reservation" THEN end_flow(s)
    ELSE [s EXCEPT !.stage = "choose", !.show_recs = FALSE]

\* the files of a front end's conversation are written, or the write of
\* listings.csv fails
FrontIo == {"ok", "catalog_write_fails"}

\* what the user types
UserTexts ==
    {<<"q", "u", "i", "t">>, <<"R", "e", "s", "t", "a", "r", "t">>,
     <<"b", "o", "o", "k", " ", "1">>, <<"b", "o", "o", "k", " ", "9">>, <<SuperscriptTwo>>,
     <<"a", "@", "b", ".", "c">>, <<"y", "e", "s">>, <<"N", "o">>}

\* what the user types when asked for a name: a name, or blanks
NameTexts == {<<" ", "A", "n", "n">>, <<" ">>}

\* the location of one listing of the catalog
FrontCity == <<"O", "l", "d", " ", "M", "o", "n", "t", "r", "e", "a", "l">>

\* a batch that gives every field but the checkin_date
AllButCheckin ==
    [k \in FieldNames \ {"checkin_date"} |->
        CASE k = "location" -> PyStr(FrontCity)
          [] k = "checkout_date" -> IsoStr(<<2025, 8, 30>>)
          [] k = "property_type" -> PyStr(<<"H", "o", "t", "e", "l">>)
          [] k = "amenities" -> PyStr(<<"w", "i", "f", "i">>)
          [] k = "number_of_guests" -> PyInt(2)]

\* what the extraction gives in a front end's conversation: all six fields,
\* all but the checkin_date, and a checkin_date with a checkout_date that
\* raises in the resolver
FrontBatches ==
    {[AllFields(IsoStr(<<2025, 8, 30>>), IsoStr(<<2025, 9, 2>>)) EXCEPT
        !["location"] = PyStr(FrontCity), !["property_type"] = PyStr(<<"H", "o", "t", "e", "l">>)],
     AllButCheckin,
     BothDates(IsoStr(<<2025, 8, 30>>), Phrase(<<"offset", FarDays, "day">>))}

FrontCallSeqs == {<<>>} \cup {<<b>> : b \in FrontBatches}

\* the handler leaves everything but the conversation state as it is
OnlySession(handler, s) ==
    /\ session' = s
    /\ op' = handler
    /\ UNCHANGED <<now, booking_info, ret, extraction>>
    /\ UNCHANGED <<bookingVars, callVars, stepVars>>

\* main.py lines 55-57 (break), streamlit_app.py lines 214-217
Quit(user_input) ==
    /\ session.running
    /\ IsQuit(user_input)
    /\ OnlySession("quit", IF session.frontend = "cli" THEN [session EXCEPT !.running = FALSE]
                            ELSE end_flow(session))

\* main.py lines 58-67, streamlit_app.py lines 219-223 and 75-85: a new
\* BookingAgent, and in Streamlit a new Recommender, which reads listings.csv
RestartTyped(user_input) ==
    /\ session.running
    /\ ~IsQuit(user_input)
    /\ IsRestart(user_input)
    /\ session' = Restarted(session)
    /\ booking_info' = EmptyBookingInfo
    /\ ret' = [kind |-> "none"]
    /\ extraction' = "none"
    /\ op' = "restart"
    /\ IF session.frontend = "cli"
       THEN UNCHANGED bookingVars
       ELSE /\ df' = [df EXCEPT ![User] = listings_csv]
            /\ reserved' = [reserved EXCEPT ![User] = {}]
            /\ last' = [conv |-> User, op |-> "new"]
            /\ UNCHANGED <<listings_csv, reservations_csv>>
    /\ UNCHANGED now
    /\ UNCHANGED <<callVars, stepVars>>

\* the text is no command, and the conversation is in the stage
InStage(user_input, stage) ==
    /\ session.running
    /\ ~IsQuit(user_input)
    /\ ~IsRestart(user_input)
    /\ session.stage = stage

\* streamlit_app.py lines 226-229
TypedWhenIdle(user_input) ==
    /\ InStage(user_input, "idle")
    /\ OnlySession("idle", session)

\* main.py lines 70-85 and 96-108, streamlit_app.py lines 255-276: the text
\* goes to the agent, and a reply that looks like JSON to recommend
AskAgent ==
    /\ \E r \in RunResults(booking_info, now, FrontCallSeqs) :
            /\ AgentRan(r)
            /\ session' = AfterReply(session, r.reply, df[User])
    /\ UNCHANGED <<bookingVars, callVars, stepVars>>

\* main.py lines 70-85, streamlit_app.py lines 238-276, stage collect
Collect(user_input) ==
    /\ InStage(user_input, "collect")
    /\ AskAgent

\* main.py lines 87-108, streamlit_app.py lines 238-276, stage choose: a
\* selection, or a refinement; the ValueError of try_parse_selection ends
\* main() and leaves st.session_state as it is
Choose(user_input) ==
    /\ InStage(user_input, "choose")
    /\ CASE try_parse_selection(user_input, session.last_recs) = Raise ->
                OnlySession("select", IF session.frontend = "cli"
                                      THEN [session EXCEPT !.running = FALSE] ELSE session)
         [] try_parse_selection(user_input, session.last_recs) = PyNone ->
                AskAgent
         [] OTHER ->
                OnlySession("select",
                            Selected(session, try_parse_selection(user_input, session.last_recs).num))

\* streamlit_app.py lines 191-208: a listing selected in the panel
SelectInPanel ==
    /\ session.frontend = "streamlit"
    /\ session.stage = "choose"
    /\ session.last_recs # <<>>
    /\ session.show_recs
    /\ \E k \in 1..Len(session.last_recs) :
            session' = Selected(session, session.last_recs[k].listing_id)
    /\ op' = "select"
    /\ UNCHANGED <<now, booking_info, ret, extraction>>
    /\ UNCHANGED <<bookingVars, callVars, stepVars>>

\* main.py lines 110-116 (and 52-54 for an empty input), streamlit_app.py
\* lines 279-286: the input is stripped, and an empty name is asked for again
ConfirmName(user_input) ==
    /\ InStage(user_input, "confirm_name")
    /\ OnlySession("name", IF Strip(user_input) = <<>> THEN session
                            ELSE [session EXCEPT !.customer.name = PyStr(Strip(user_input)),
                                                 !.stage = "confirm_email"])

\* main.py lines 118-131, streamlit_app.py lines 289-324; chosen.get on a
\* chosen that is None ends main()
ConfirmEmail(user_input) ==
    /\ InStage(user_input, "confirm_email")
    /\ OnlySession("email",
            IF ~ValidEmail(Strip(user_input)) THEN session
            ELSE IF session.frontend = "cli"
                    /\ (session.pending_listing_id = PyNone
                        \/ ChosenListing(session.last_recs, session.pending_listing_id.num) = PyNone)
            THEN [session EXCEPT !.customer.email = PyStr(Strip(user_input)), !.running = FALSE]
            ELSE [session EXCEPT !.customer.email = PyStr(Strip(user_input)), !.stage = "confirm_book"])

IsYes(user_input) == Lower(Strip(user_input)) \in {<<"y", "e", "s">>, <<"y">>}

IsNo(user_input) == Lower(Strip(user_input)) \in {<<"n", "o">>, <<"n">>}

\* main.py lines 133-141, streamlit_app.py lines 327-332: no answer, or "no"
DeclineBook(user_input) ==
    /\ InStage(user_input, "confirm_book")
    /\ ~IsYes(user_input)
    /\ OnlySession("decline",
            IF ~IsNo(user_input) THEN session
            ELSE IF session.frontend = "cli" THEN [session EXCEPT !.stage = "choose"]
            ELSE end_flow(session))

\* main.py lines 143-164, streamlit_app.py lines 333-367: "yes", and reserve
\* is called unless Streamlit has lost the listing
ConfirmBook(user_input) ==
    /\ InStage(user_input, "confirm_book")
    /\ IsYes(user_input)
    /\ op' = "book"
    /\ IF ListingToReserve(session) = PyNone
       THEN /\ session' = [session EXCEPT !.stage = "choose", !.show_recs = TRUE]
            /\ UNCHANGED bookingVars
       ELSE \E io \in FrontIo :
                LET r == reserve(df[User], listings_csv, reservations_csv,
                                 ListingToReserve(session).num, CriteriaToReserve(session), utcnow, io)
                IN  /\ FinishReserve(User, ListingToReserve(session).num, CriteriaToReserve(session), io, r)
                    /\ session' = AfterReserve(session, r.outcome)
    /\ UNCHANGED <<now, booking_info, ret, extraction>>
    /\ UNCHANGED <<callVars, stepVars>>

\* a conversation starts in one of the front ends
FrontStarts ==
    /\ session \in {NewSession(f) : f \in FrontEnds}

-----------------------------------------------------------------------------
(* the specifications *)

\* a conversation starts: BookingAgent.__init__
AgentStart ==
    /\ now \in NowDates
    /\ booking_info = EmptyBookingInfo
    /\ ret = [kind |-> "none"]
    /\ extraction = "none"
    /\ op = "init"

\* no helper has been called directly
CallStart ==
    /\ batch = <<>>
    /\ batch_raised = FALSE
    /\ phrase = PyNone
    /\ resolved = PyNone

StepStart ==
    /\ utcnow = 0
    /\ inflight = [c \in Conversations |-> Idle]

\* no front end is modelled
FrontStart == session = NewSession("cli")

Init == AgentStart /\ BookingStart /\ CallStart /\ StepStart /\ FrontStart

AgentNext == RunComplete \/ RunExtractionFails \/ RunExtracts \/ Restart

\* the agent on its own, the Recommenders idle
AgentSpec == Init /\ [][AgentNext]_vars

BookingNext ==
    \E c \in Conversations : Reserve(c) \/ Recommend(c) \/ NewRecommender(c) \/ AdminReset(c)

\* the conversations' Recommenders on the shared files, the agent idle
BookingSpec == Init /\ [][BookingNext]_vars

InterleaveNext ==
    \/ Tick
    \/ \E c \in Conversations : ReserveReadsLog(c) \/ ReserveWritesLog(c)

\* the reserve calls of the conversations, the read and the write of
\* reservations.csv as separate steps, while the clock runs
InterleaveSpec == Init /\ [][InterleaveNext]_vars

UpdateNext == NormalizeAndUpdate

\* update batches applied one after the other to an initially empty record
UpdateSpec == Init /\ [][UpdateNext]_vars

\* _resolve_relative_date is called on a text, at a reference date
ResolverStart ==
    /\ now \in RefDates
    /\ \/ phrase \in RelativeTexts /\ resolved = Pending
       \/ phrase \in IsoTexts /\ resolved = PendingEnsure
    /\ booking_info = EmptyBookingInfo
    /\ ret = [kind |-> "none"]
    /\ extraction = "none"
    /\ op = "init"
    /\ batch = <<>>
    /\ batch_raised = FALSE
    /\ BookingStart
    /\ StepStart
    /\ FrontStart

SearchInit == AgentStart /\ SearchStart /\ CallStart /\ StepStart /\ FrontStart

SearchNext == \E c \in Conversations : RecommendReturns(c)

\* recommend called on catalogs and payloads of every kind
SearchSpec == SearchInit /\ [][SearchNext]_vars

FrontInit == AgentStart /\ BookingStart /\ CallStart /\ StepStart /\ FrontStarts

FrontNext ==
    \/ \E user_input \in UserTexts :
            \/ Quit(user_input)
            \/ RestartTyped(user_input)
            \/ TypedWhenIdle(user_input)
            \/ Collect(user_input)
            \/ Choose(user_input)
            \/ ConfirmEmail(user_input)
            \/ DeclineBook(user_input)
            \/ ConfirmBook(user_input)
    \/ \E user_input \in NameTexts : ConfirmName(user_input)
    \/ SelectInPanel

\* one conversation in a front end: what the user types, the agent and the
\* Recommender behind it
FrontSpec == FrontInit /\ [][FrontNext]_vars

SelectInit == AgentStart /\ BookingStart /\ SelectStart /\ StepStart

SelectNext == ParseSelection

\* try_parse_selection called on texts and lists of recommendations
SelectSpec == SelectInit /\ [][SelectNext]_vars

ResolverNext == Resolve \/ EnsureIso

\* the date resolver called on texts and reference dates, and
\* _ensure_iso_date on canonical date strings
ResolverSpec == ResolverStart /\ [][ResolverNext]_vars

-----------------------------------------------------------------------------
(* Properties of the agent, under AgentSpec *)

\* C1: after any sequence of update batches on an initially empty record,
\* whenever checkin_date and checkout_date are both set, checkout_date is
\* strictly later than checkin_date.
C1_CheckoutAfterCheckin ==
    (Truthy(booking_info["checkin_date"]) /\ Truthy(booking_info["checkout_date"]))
        => DateBefore(booking_info["checkin_date"].ymd, booking_info["checkout_date"].ymd)

\* C2: once the agent is complete, every run() returns the finalized payload of
\* the unchanged record without an extraction call, and only the replacement of
\* the agent on a restart makes it incomplete again.
C2_CompleteStaysComplete ==
    [][_is_complete(booking_info) =>
          /\ (op' = "run" => /\ booking_info' = booking_info
                             /\ ret' = _final_json(booking_info)
                             /\ extraction' = "skipped")
          /\ (~_is_complete(booking_info') => op' = "restart")]_vars

\* a complete agent has answered a further run()
C2_Witness ==
    /\ _is_complete(booking_info)
    /\ extraction = "skipped"
    /\ ret = _final_json(booking_info)

\* C8: when the extraction call fails on an incomplete agent, run() returns a
\* non-empty local question for fields that are missing and leaves the record
\* as it was; no run() returns an empty response or raises.
C8_ExtractionFailureAsksLocally ==
    [][op' = "run" =>
          /\ ret'.kind \in {"final", "local", "llm"}
          /\ (ret'.kind = "local" => ret'.question # "")
          /\ (ret'.kind = "llm" => ret'.text # <<>>)
          /\ (extraction' = "error" =>
                /\ booking_info' = booking_info
                /\ ret'.kind = "local"
                /\ QuestionTargets(ret'.question) # {}
                /\ \A k \in QuestionTargets(ret'.question) : ~Truthy(booking_info[k]))]_vars

\* the extraction call failed on an agent that already holds some fields
C8_Witness ==
    /\ extraction = "error"
    /\ ret.kind = "local"
    /\ Truthy(booking_info["location"])
    /\ ~Truthy(booking_info["checkin_date"])

\* C9, as the specification states it: the local question of an incomplete
\* record targets the first missing field in the order of REQUIRED_FIELDS.
C9_AsksFirstOfRequiredFields ==
    (ret.kind = "local" /\ ~_is_complete(booking_info))
        => Head(_missing_fields(booking_info)) \in QuestionTargets(ret.question)

\* C9, as the code has it: the local question of an incomplete record targets
\* the first missing field in the order location, checkin_date, checkout_date,
\* property_type, number_of_guests, amenities, and checkout_date with
\* checkin_date when both are missing.
C9_AsksFirstInQuestionOrder ==
    (ret.kind = "local" /\ ~_is_complete(booking_info)) =>
        LET order == <<"location", "checkin_date", "checkout_date", "property_type",
                       "number_of_guests", "amenities">>
            first == CHOOSE i \in 1..Len(order) :
                        /\ ~Truthy(booking_info[order[i]])
                        /\ \A j \in 1..(i - 1) : Truthy(booking_info[order[j]])
        IN  QuestionTargets(ret.question) =
                IF order[first] = "checkin_date" /\ ~Truthy(booking_info["checkout_date"])
                THEN {"checkin_date", "checkout_date"}
                ELSE {order[first]}

\* amenities and number_of_guests are the missing fields, and the local
\* question asked for the guests
C9_Witness ==
    /\ ret.kind = "local"
    /\ _missing_fields(booking_info) = <<"amenities", "number_of_guests">>
    /\ QuestionTargets(ret.question) = {"number_of_guests"}

\* C10: _is_complete() holds exactly when each of the six fields is set to a
\* non-empty value, and run() returns the finalized payload on the run whose
\* batch fills the last missing field and never while a field is empty.
C10_PayloadOnFillingBatch ==
    /\ _is_complete(booking_info) <=>
            \A k \in FieldNames :
                /\ booking_info[k] # PyNone
                /\ booking_info[k] # PyStr(<<>>)
                /\ booking_info[k] # PyList(<<>>)
    /\ (op = "run" /\ _is_complete(booking_info)) => ret = _final_json(booking_info)
    /\ ret.kind = "final" => _is_complete(booking_info)

-----------------------------------------------------------------------------
(* Properties of _normalize_and_update, under UpdateSpec *)

\* the date resolver does not resolve the raw value: it returns None or raises
Unresolved(raw, nowd) == _ensure_iso_date(raw, nowd).t \in {"none", "raise"}

\* None, or a YYYY-MM-DD text of a calendar date
UnsetOrCanonicalDate(x) == x = PyNone \/ (x.t = "iso" /\ ValidDate(x.ymd))

\* C11, as the specification states it: when a batch proposes a checkin_date or
\* checkout_date that the date resolver cannot resolve, the stored value of that
\* field is unchanged; a stored date is always unset or a valid YYYY-MM-DD date.
C11_UnresolvedDateKeepsField ==
    [][/\ \A f \in {"checkin_date", "checkout_date"} :
            (f \in DOMAIN batch' /\ Unresolved(batch'[f], now))
                => booking_info'[f] = booking_info[f]
       /\ UnsetOrCanonicalDate(booking_info'["checkin_date"])
       /\ UnsetOrCanonicalDate(booking_info'["checkout_date"])]_vars

\* C11, as the code has it: a proposed date that the resolver cannot resolve is
\* not stored, and the field keeps its value unless it is the checkout_date and
\* the repair of the same batch moves it to the day after a checkin_date that is
\* not before it; a stored date is always unset or a valid YYYY-MM-DD date.
C11_UnresolvedDateNotStored ==
    [][/\ \A f \in {"checkin_date", "checkout_date"} :
            (f \in DOMAIN batch' /\ Unresolved(batch'[f], now))
                => \/ booking_info'[f] = booking_info[f]
                   \/ /\ f = "checkout_date"
                      /\ Truthy(booking_info["checkout_date"])
                      /\ Truthy(booking_info'["checkin_date"])
                      /\ ~DateBefore(booking_info'["checkin_date"].ymd, booking_info["checkout_date"].ymd)
                      /\ booking_info'[f] = IsoStr(AddDays(booking_info'["checkin_date"].ymd, 1))
       /\ UnsetOrCanonicalDate(booking_info'["checkin_date"])
       /\ UnsetOrCanonicalDate(booking_info'["checkout_date"])]_vars

\* a batch has proposed a text with no date in it for a checkin_date that was
\* set, and the call returned
C11_Witness ==
    /\ "checkin_date" \in DOMAIN batch
    /\ batch["checkin_date"] = Phrase(<<"garbage">>)
    /\ ~batch_raised
    /\ Truthy(booking_info["checkin_date"])

\* the date a batch leaves in a field before the repair: the date it gives
\* when it carries one that resolves, the stored date otherwise
DateGiven(info, updates, f, nowd) ==
    IF f \in DOMAIN updates /\ ~Unresolved(updates[f], nowd)
    THEN _ensure_iso_date(updates[f], nowd)
    ELSE info[f]

\* a batch changes no field whose key it does not carry, but for the
\* checkout_date that the repair moves to the day after the checkin_date
OnlyCarriedFieldsChange ==
    \A f \in FieldNames :
        (f \notin DOMAIN batch' /\ booking_info'[f] # booking_info[f])
            => /\ f = "checkout_date"
               /\ Truthy(booking_info'["checkin_date"])
               /\ booking_info'[f] = IsoStr(AddDays(booking_info'["checkin_date"].ymd, 1))

\* C30: the repair changes only checkout_date: when a batch leaves the
\* checkout_date on or before the checkin_date, the checkout_date becomes the
\* day after the checkin_date and the checkin_date keeps the value the batch
\* gave; apart from the repair, a batch changes only the fields whose keys it
\* carries.
C30_RepairMovesOnlyCheckout ==
    [][/\ LET ci == DateGiven(booking_info, batch', "checkin_date", now)
              co == DateGiven(booking_info, batch', "checkout_date", now)
          IN  (Truthy(ci) /\ Truthy(co) /\ ~DateBefore(ci.ymd, co.ymd))
                => /\ booking_info'["checkout_date"] = IsoStr(AddDays(ci.ymd, 1))
                   /\ booking_info'["checkin_date"] = ci
       /\ OnlyCarriedFieldsChange]_vars

\* an unset, empty or whitespace-only value
Blank(x) == x.t = "none" \/ (x.t = "str" /\ Strip(x.chars) = <<>>)

\* C12: no batch overwrites location with a blank: after a batch that proposes
\* an unset, empty or whitespace-only location, a stored non-empty location is
\* still stored, and the stored location is never the empty string.
C12_LocationNeverBlanked ==
    [][/\ ("location" \in DOMAIN batch' /\ Blank(batch'["location"]) /\ Truthy(booking_info["location"]))
            => booking_info'["location"] = booking_info["location"]
       /\ booking_info'["location"] # PyStr(<<>>)]_vars

\* C13: after any sequence of batches number_of_guests is unset or a positive
\* integer.
C13_GuestsUnsetOrPositive ==
    \/ booking_info["number_of_guests"] = PyNone
    \/ /\ booking_info["number_of_guests"].t = "int"
       /\ booking_info["number_of_guests"].num > 0

\* None, or a non-empty list of non-empty tokens without outer whitespace
UnsetOrTokens(x) ==
    \/ x = PyNone
    \/ /\ x.t = "list"
       /\ x.items # <<>>
       /\ \A i \in 1..Len(x.items) : x.items[i] # <<>> /\ Strip(x.items[i]) = x.items[i]

\* the value normalizes to no tokens
NoTokens(x) ==
    CASE x.t = "list" -> \A i \in 1..Len(x.items) : Strip(x.items[i]) = <<>>
      [] x.t = "str" -> \A i \in 1..Len(x.chars) : x.chars[i] \in Whitespace \cup {","}
      [] OTHER -> TRUE

\* C14: amenities is always unset or a non-empty list of non-empty trimmed
\* tokens, and a batch that carries the amenities key with an unset value, or
\* with a value that normalizes to no tokens, leaves amenities unset.
C14_AmenitiesClearedByEmptyProposal ==
    [][/\ UnsetOrTokens(booking_info'["amenities"])
       /\ ("amenities" \in DOMAIN batch' /\ NoTokens(batch'["amenities"]))
            => booking_info'["amenities"] = PyNone]_vars

-----------------------------------------------------------------------------
(* Properties of _resolve_relative_date, under ResolverSpec *)

\* the days from date a to date b
DaysFromTo(a, b) == ToOrdinal(b) - ToOrdinal(a)

\* the text is a weekday word after the given lead
WeekdayPhrase(x, lead) == x.t = "phrase" /\ x.words[1] = lead /\ x.words[2] \in WeekdayWords

\* the weekday a word names, Monday 0 .. Sunday 6, by its first two letters
NamedWeekday(wd) ==
    CASE SubSeq(wd, 1, 2) = <<"m", "o">> -> 0
      [] SubSeq(wd, 1, 2) = <<"t", "u">> -> 1
      [] SubSeq(wd, 1, 2) = <<"w", "e">> -> 2
      [] SubSeq(wd, 1, 2) = <<"t", "h">> -> 3
      [] SubSeq(wd, 1, 2) = <<"f", "r">> -> 4
      [] SubSeq(wd, 1, 2) = <<"s", "a">> -> 5
      [] SubSeq(wd, 1, 2) = <<"s", "u">> -> 6

\* C15: "next W" resolves to a date that falls on W and is 1 to 7 days after
\* the reference date: exactly 7 days after it when the reference date is a W.
C15_NextWeekdayStrictlyAfter ==
    (WeekdayPhrase(phrase, "next") /\ resolved # Pending) =>
        /\ resolved.t = "iso"
        /\ Weekday(resolved.ymd) = NamedWeekday(phrase.words[2])
        /\ DaysFromTo(now, resolved.ymd) \in 1..7
        /\ (Weekday(now) = NamedWeekday(phrase.words[2]) => DaysFromTo(now, resolved.ymd) = 7)

\* C16: the bare weekday word W resolves as "next W" is claimed to: to a date
\* that falls on W, is after the reference date, and is never the reference
\* date, even when the reference date is a W.
C16_BareWeekdayStrictlyAfter ==
    (WeekdayPhrase(phrase, "weekday") /\ resolved # Pending) =>
        /\ resolved.t = "iso"
        /\ Weekday(resolved.ymd) = NamedWeekday(phrase.words[2])
        /\ DaysFromTo(now, resolved.ymd) > 0
        /\ resolved.ymd # now

\* the number a count token stands for: its digits, or its place among the words
\* zero .. twelve
CountWords == <<
    <<"z", "e", "r", "o">>, <<"o", "n", "e">>, <<"t", "w", "o">>, <<"t", "h", "r", "e", "e">>,
    <<"f", "o", "u", "r">>, <<"f", "i", "v", "e">>, <<"s", "i", "x">>, <<"s", "e", "v", "e", "n">>,
    <<"e", "i", "g", "h", "t">>, <<"n", "i", "n", "e">>, <<"t", "e", "n">>,
    <<"e", "l", "e", "v", "e", "n">>, <<"t", "w", "e", "l", "v", "e">> >>

IsCount(tok) == IsDigit(tok) \/ InSeq(tok, CountWords)

CountOf(tok) ==
    IF IsDigit(tok) THEN DigitsValue(tok)
    ELSE (CHOOSE i \in 1..Len(CountWords) : CountWords[i] = tok) - 1

\* the date n calendar months after d: the month counted on from d's, the day
\* of month kept when that month has it and its last day otherwise
MonthsAfter(d, n) ==
    LET months == d[1] * 12 + (d[2] - 1) + n
        y == months \div 12
        m == (months % 12) + 1
        last_day == CHOOSE k \in 28..31 : ValidDate(<<y, m, k>>) /\ ~ValidDate(<<y, m, k + 1>>)
    IN  <<y, m, IF d[3] <= last_day THEN d[3] ELSE last_day>>

C28_ThisWeekdayOnOrAfter ==
    ((WeekdayPhrase(phrase, "this") \/ WeekdayPhrase(phrase, "on")) /\ resolved # Pending) =>
        /\ resolved.t = "iso"
        /\ Weekday(resolved.ymd) = NamedWeekday(phrase.words[2])
        /\ DaysFromTo(now, resolved.ymd) \in 0..6
        /\ (Weekday(now) = NamedWeekday(phrase.words[2]) => resolved.ymd = now)

\* on Friday 2025-08-22, "this fri" gave that day
C28_Witness ==
    /\ now = <<2025, 8, 22>>
    /\ phrase = Phrase(<<"this", <<"f", "r", "i">> >>)
    /\ resolved = IsoStr(<<2025, 8, 22>>)

\* the month and day in the reference year
InReferenceYear(ymd) == <<now[1], ymd[2], ymd[3]>>

\* C29: of a valid canonical date whose year is more than one year before the
\* reference year, _ensure_iso_date returns the same month and day in the
\* reference year, or in the year after when that day of the reference year
\* is before the reference date, and never a date before the reference date;
\* a canonical date of the year before the reference year or later is
\* returned as it is.
C29_OldYearRolledForward ==
    (phrase.t = "iso" /\ resolved # PendingEnsure) =>
        IF phrase.ymd[1] < now[1] - 1
        THEN /\ resolved.t = "iso"
             /\ resolved.ymd[2] = phrase.ymd[2]
             /\ resolved.ymd[3] = phrase.ymd[3]
             /\ resolved.ymd[1] = IF DateBefore(InReferenceYear(phrase.ymd), now) THEN now[1] + 1 ELSE now[1]
             /\ ~DateBefore(resolved.ymd, now)
        ELSE resolved = phrase

-----------------------------------------------------------------------------
(* Properties of recommend, under SearchSpec *)

\* the requested location and property type, as recommend reads them
RequestedLocation(criteria) == Lower(Strip(StrOrEmpty(criteria.location)))

RequestedType(criteria) == Lower(Strip(StrOrEmpty(criteria.property_type)))

\* C18: every listing recommend returns has a location text that contains the
\* requested location, whatever the case of the letters, and recommend returns
\* the empty list when no available listing has such a location.
C18_ReturnedLocationsContainRequest ==
    last.op = "recommend" =>
        /\ \A n \in 1..Len(last.outcome.recs) :
                Contains(RequestedLocation(last.criteria), Lower(last.outcome.recs[n].location))
        /\ (\A i \in Rows :
                df[last.conv][i] = Available
                    => ~Contains(RequestedLocation(last.criteria), Lower(CATALOG[i].location)))
            => last.outcome.recs = <<>>

\* the listing's property type contains the requested type
HasRequestedType(rec, criteria) == Contains(RequestedType(criteria), Lower(rec.property_type))

\* the list with the listings of the requested type only
OfRequestedType(recs, criteria) == SelectSeq(recs, LAMBDA rec : HasRequestedType(rec, criteria))

\* what recommend gives without the property-type preference, and without the
\* guest count as well: the latter are the available listings of the location
WithoutType(criteria) == [criteria EXCEPT !.property_type = PyNone]

WithoutTypeAndGuests(criteria) == [criteria EXCEPT !.property_type = PyNone, !.number_of_guests = PyNone]

CoversGuests(rec, guests) == 2 * rec.bedrooms >= guests

\* C20: when the criteria give a guest count, every listing recommend returns
\* has bedrooms >= ceil(guests / 2): recommend returns those of the listings it
\* returns without a guest count that have the bedrooms, and the empty list
\* when none has.
C20_BedroomsCoverGuests ==
    (last.op = "recommend" /\ last.criteria.number_of_guests.t = "int") =>
        /\ \A n \in 1..Len(last.outcome.recs) :
                CoversGuests(last.outcome.recs[n], last.criteria.number_of_guests.num)
        /\ last.outcome.recs =
                Head_k(SelectSeq(recommend(df[last.conv], [last.criteria EXCEPT !.number_of_guests = PyNone],
                                           Len(CATALOG)),
                                 LAMBDA rec : CoversGuests(rec, last.criteria.number_of_guests.num)),
                       last.top_k)

\* five guests were given, no listing of the location has three bedrooms, and
\* nothing was returned although listings are returned without a guest count
C20_Witness ==
    /\ last.op = "recommend"
    /\ last.criteria.number_of_guests = PyInt(5)
    /\ last.outcome.recs = <<>>
    /\ recommend(df[last.conv], [last.criteria EXCEPT !.number_of_guests = PyNone], TOP_K) # <<>>

\* the number of requested amenities the listing matches, its rating and its
\* review count
SortKey(rec, criteria) ==
    <<amenity_score(_normalize_amenity_patterns(RequestedAmenities(criteria.amenities)), rec.amenities),
      rec.rating, rec.reviews_count>>

\* key a ranks above key b
KeyAbove(a, b) ==
    \/ a[1] > b[1]
    \/ a[1] = b[1] /\ a[2] > b[2]
    \/ a[1] = b[1] /\ a[2] = b[2] /\ a[3] > b[3]

\* the listing's row in the catalog
CatalogPosition(rec) == CHOOSE i \in Rows : CATALOG[i].listing_id = rec.listing_id

\* the list is in descending order of the keys, ties in catalog order
Ranked(recs, criteria) ==
    \A n, m \in 1..Len(recs) :
        n < m => \/ KeyAbove(SortKey(recs[n], criteria), SortKey(recs[m], criteria))
                 \/ /\ SortKey(recs[n], criteria) = SortKey(recs[m], criteria)
                    /\ CatalogPosition(recs[n]) < CatalogPosition(recs[m])

\* C21: the list recommend returns is ordered by descending amenity match
\* count, then descending rating, then descending review count, listings that
\* tie on all three in catalog order, and it holds at most top_k listings: the
\* first top_k of the listings that pass the filters, in that order.
C21_RankedAndCutToTopK ==
    last.op = "recommend" =>
        LET all == recommend(df[last.conv], last.criteria, Len(CATALOG))
            kept == IF Len(all) < last.top_k THEN Len(all) ELSE last.top_k
        IN  /\ Ranked(all, last.criteria)
            /\ Len(last.outcome.recs) <= last.top_k
            /\ last.outcome.recs = [n \in 1..kept |-> all[n]]

\* three listings pass the filters and two are returned: the one with the pool
\* that was asked for, then the better rated of the other two, which is the
\* first row of the catalog
C21_Witness ==
    /\ last.op = "recommend"
    /\ last.top_k = 2
    /\ Len(recommend(df[last.conv], last.criteria, Len(CATALOG))) = 3
    /\ Len(last.outcome.recs) = 2
    /\ last.outcome.recs[1].listing_id = 102
    /\ last.outcome.recs[2].listing_id = 101

\* C22: when the write of reservations.csv fails after the catalog flip was
\* written, reserve still returns a reservation, which carries a warning, and
\* the listing stays Booked in the Recommender's memory and in listings.csv.
C22_LogFailureKeepsBooking ==
    [][(last' # last /\ last'.op = "reserve" /\ last'.io = "log_write_fails"
            /\ reserve(df[last'.conv], listings_csv, reservations_csv, last'.listing_id,
                       last'.criteria, utcnow, "ok").outcome.kind = "reservation")
        => /\ last'.outcome.kind = "reservation"
           /\ last'.outcome.warning
           /\ \A i \in RowsOfListing(last'.listing_id) :
                    /\ df'[last'.conv][i] = Booked
                    /\ listings_csv'[i] = Booked
           /\ reservations_csv' = reservations_csv]_vars

\* a reserve whose log write failed returned a reservation of listing 101 with
\* a warning: the listing is Booked in listings.csv and the log has no row
C22_Witness ==
    /\ last.op = "reserve"
    /\ last.io = "log_write_fails"
    /\ last.outcome.kind = "reservation"
    /\ last.outcome.warning
    /\ last.listing_id = 101
    /\ listings_csv[1] = Booked
    /\ df[last.conv][1] = Booked
    /\ reservations_csv = <<>>

-----------------------------------------------------------------------------
(* Properties of try_parse_selection, under SelectSpec *)

\* the listing ids of a list of recommendations
RecIds(recs) == {recs[k].listing_id : k \in 1..Len(recs)}

\* the id of the n-th listing of the list, None when the list has no n-th
NthListing(n, recs) == IF n \in 1..Len(recs) THEN PyInt(recs[n].listing_id) ELSE PyNone

\* C27: try_parse_selection returns None or the id of a listing of recs: for
\* "book N", "book id N" and "select N" it returns N when N is the id of a
\* listing of recs, otherwise the id of the N-th listing when 1 <= N <=
\* len(recs), otherwise None; a bare number N is read as the ordinal N only.
C27_SelectionIsListingOfRecs ==
    (phrase.t = "str" /\ resolved # PendingSelection) =>
        /\ resolved = PyNone \/ (resolved.t = "int" /\ resolved.num \in RecIds(session.last_recs))
        /\ \A v \in SelectionVerbs, b \in BOOLEAN, n \in SelectionNumbers :
                phrase.chars = SelectionCommand(v, b, n)
                    => resolved = IF n \in RecIds(session.last_recs) THEN PyInt(n)
                                  ELSE NthListing(n, session.last_recs)
        /\ \A n \in SelectionNumbers :
                phrase.chars = DigitsOf(n) => resolved = NthListing(n, session.last_recs)

\* C27 but for the texts that hold a superscript digit
SelectionOfPlainText ==
    (\E i \in 1..Len(phrase.chars) : phrase.chars[i] = SuperscriptTwo) \/ C27_SelectionIsListingOfRecs

-----------------------------------------------------------------------------
(* Properties of reserve calls that interleave, under InterleaveSpec *)

\* the rows of the log that are the reservation
RowsOf(log, reservation) == {k \in 1..Len(log) : log[k] = reservation}

\* C23: the reservation log is append-only under reserve: whatever the
\* interleaving of the conversations' reserve calls, every row written earlier
\* is still in the log, unchanged, and a reservation returned without a
\* warning has exactly one row in the log: the call that returns it adds one row
\* for it.
C23_LogAppendOnly ==
    [][/\ \A k \in 1..Len(reservations_csv) :
            /\ k <= Len(reservations_csv')
            /\ reservations_csv'[k] = reservations_csv[k]
       /\ (last' # last /\ last'.op = "reserve" /\ last'.outcome.kind = "reservation"
                /\ ~last'.outcome.warning)
            => Cardinality(RowsOf(reservations_csv', last'.outcome.reservation))
                    = Cardinality(RowsOf(reservations_csv, last'.outcome.reservation)) + 1]_vars

\* C24: any two reservations that successful reserve calls created have
\* different reservation ids, two reservations of one listing made close
\* together in time included.
C24_ReservationIdsDiffer ==
    \A j, k \in 1..Len(reservations_csv) :
        j # k => reservations_csv[j].reservation_id # reservations_csv[k].reservation_id

-----------------------------------------------------------------------------
(* Properties of the Recommenders, under BookingSpec *)

\* C3: when two conversations, each with a Recommender of its own, reserve the
\* same listing, one call succeeds and the other fails: a reserve of a listing
\* that another conversation's Recommender has reserved, and that listings.csv
\* holds as Booked, returns no reservation.
C3_SecondConversationFails ==
    [][\A c \in Conversations : \A d \in Conversations \ {c} : \A l \in reserved[d] :
          (/\ last'.op = "reserve" /\ last'.conv = c /\ last'.listing_id = l
           /\ listings_csv[FirstRow(RowsOfListing(l))] = Booked)
          => last'.outcome.kind # "reservation"]_vars

\* C4: on one Recommender at most one reserve succeeds for a listing: a reserve
\* of a listing the Recommender has already reserved raises the 'no longer
\* available' error and adds no row to reservations.csv.
C4_OneSuccessPerListing ==
    [][\A c \in Conversations : \A l \in reserved[c] :
          (last'.op = "reserve" /\ last'.conv = c /\ last'.listing_id = l)
          => /\ last'.outcome.kind = "error"
             /\ last'.outcome.message = "Sorry, this listing is no longer available."
             /\ reservations_csv' = reservations_csv
             /\ reserved' = reserved]_vars

\* a Recommender has refused a listing it had reserved before
C4_Witness ==
    /\ last.op = "reserve"
    /\ last.listing_id \in reserved[last.conv]
    /\ last.outcome.kind = "error"
    /\ last.outcome.message = "Sorry, this listing is no longer available."

\* C5: a reserve whose listing id is not in the catalog, whose listing is not
\* Available, or whose date_checkout is not after its date_checkin raises an
\* error and changes no availability flag, in memory or in listings.csv, and
\* adds no row to reservations.csv.
C5_FailedReserveChangesNothing ==
    [][last'.op = "reserve" =>
          LET c == last'.conv
              S == RowsOfListing(last'.listing_id)
              k == last'.criteria
          IN  (\/ S = {}
               \/ df[c][FirstRow(S)] # Available
               \/ ~DateBefore(k.date_checkin.ymd, k.date_checkout.ymd))
              => /\ last'.outcome.kind = "error"
                 /\ df' = df
                 /\ listings_csv' = listings_csv
                 /\ reservations_csv' = reservations_csv]_vars

\* a reserve of an Available listing has failed on its dates, reservations.csv
\* holding a row
C5_Witness ==
    /\ last.op = "reserve"
    /\ last.outcome.kind = "error"
    /\ last.outcome.message = "Checkout date must be after check-in date."
    /\ df[last.conv][FirstRow(RowsOfListing(last.listing_id))] = Available
    /\ reservations_csv # <<>>

\* C6, as the specification states it: a successful reserve returns the nights
\* from date_checkin to date_checkout and the nightly price times the nights,
\* sets the listing Booked in memory and in listings.csv, and appends one row
\* for the reservation to reservations.csv.
C6_SuccessAppendsOneRow ==
    [][(last'.op = "reserve" /\ last'.outcome.kind = "reservation") =>
          LET c == last'.conv
              i == FirstRow(RowsOfListing(last'.listing_id))
              k == last'.criteria
              r == last'.outcome.reservation
              cents == IF last'.listing_id = 101 THEN 12050 ELSE 120000
          IN  /\ r.nights > 0
              /\ AddDays(k.date_checkin.ymd, r.nights) = k.date_checkout.ymd
              /\ r.estimated_total = cents * r.nights
              /\ df'[c][i] = Booked
              /\ listings_csv'[i] = Booked
              /\ r.listing_id = last'.listing_id
              /\ reservations_csv' = Append(reservations_csv, r)]_vars

\* C6, as the code has it: a successful reserve returns the nights from
\* date_checkin to date_checkout and the nightly price times the nights, sets
\* the listing Booked in memory and in listings.csv, and appends one row for
\* the reservation to reservations.csv, unless the write of reservations.csv
\* fails: the reservation then carries a warning and no row is added.
C6_SuccessAppendsUnlessWarned ==
    [][(last'.op = "reserve" /\ last'.outcome.kind = "reservation") =>
          LET c == last'.conv
              i == FirstRow(RowsOfListing(last'.listing_id))
              k == last'.criteria
              r == last'.outcome.reservation
              cents == IF last'.listing_id = 101 THEN 12050 ELSE 120000
          IN  /\ r.nights > 0
              /\ AddDays(k.date_checkin.ymd, r.nights) = k.date_checkout.ymd
              /\ r.estimated_total = cents * r.nights
              /\ df'[c][i] = Booked
              /\ listings_csv'[i] = Booked
              /\ r.listing_id = last'.listing_id
              /\ reservations_csv' = IF last'.outcome.warning
                                     THEN reservations_csv
                                     ELSE Append(reservations_csv, r)]_vars

\* a reserve of the listing priced "1,200" has succeeded and its row is the
\* second of reservations.csv
C6_Witness ==
    /\ last.op = "reserve"
    /\ last.outcome.kind = "reservation"
    /\ last.listing_id = 102
    /\ ~last.outcome.warning
    /\ Len(reservations_csv) = 2
    /\ reservations_csv[2] = last.outcome.reservation

\* C7: recommend returns no listing whose availability is Booked, and none the
\* Recommender has reserved.
C7_NeverRecommendsBooked ==
    last.op = "recommend" =>
        \A n \in 1..Len(last.outcome.recs) :
            LET rec == last.outcome.recs[n]
            IN  /\ rec.availability # Booked
                /\ df[last.conv][FirstRow(RowsOfListing(rec.listing_id))] # Booked
                /\ rec.listing_id \notin reserved[last.conv]

\* a Recommender that has reserved a listing has recommended another
C7_Witness ==
    /\ last.op = "recommend"
    /\ reserved[last.conv] # {}
    /\ last.outcome.recs # <<>>

-----------------------------------------------------------------------------
(* the front ends' conversation, main.py lines 51-164 and streamlit_app.py
   lines 210-367 *)

\* C25: from every stage, the input 'restart' or 'new' clears the
\* conversation's state in one step: the stage is collect, the agent's six
\* slots are unset, and the last criteria, the last recommendations, the
\* pending listing and the customer's name and email are cleared
C25_RestartClearsConversation ==
    [][(op' = "restart" /\ session.running) =>
            /\ session'.stage = "collect"
            /\ \A f \in FieldNames : booking_info'[f] = PyNone
            /\ session'.last_criteria = PyNone
            /\ session'.last_recs = <<>>
            /\ session'.pending_listing_id = PyNone
            /\ session'.customer = [name |-> PyNone, email |-> PyNone]
            /\ session'.running]_vars

\* a restart typed in Streamlit's idle stage, after a booking
C25_Witness ==
    /\ op = "restart"
    /\ session = NewSession("streamlit")
    /\ booking_info = EmptyBookingInfo
    /\ reservations_csv # <<>>
    /\ last.op = "new"

\* C26: when reserve fails at booking time the conversation goes on, in the
\* stage choose, from which a selection and a booking attempt are reached again
C26_FailedReserveBackToChoose ==
    [][(op' = "book" /\ last' # last /\ last'.op = "reserve"
            /\ last'.outcome.kind # "reservation") =>
            /\ session'.running
            /\ session'.stage = "choose"]_vars

\* Streamlit's conversation is at the booking confirmation again after a
\* reserve that failed for the order of the dates, with no restart between
C26_Witness ==
    /\ session.frontend = "streamlit"
    /\ session.running
    /\ session.stage = "confirm_book"
    /\ session.selected_listing # PyNone
    /\ last.op = "reserve"
    /\ last.outcome.kind = "error"
    /\ last.outcome.message = "Checkout date must be after check-in date."

-----------------------------------------------------------------------------
(* _is_complete and _missing_fields, agent.py lines 147-151 *)

\* C34: in every state of the agent, _is_complete() is true exactly when
\* _missing_fields() is the empty list
C34_CompleteIffNothingMissing ==
    _is_complete(booking_info) <=> (_missing_fields(booking_info) = <<>>)

\* the same with a number_of_guests of 0 set aside
CompleteIffNothingMissingButZero ==
    booking_info["number_of_guests"] # PyInt(0) =>
        (_is_complete(booking_info) <=> (_missing_fields(booking_info) = <<>>))

-----------------------------------------------------------------------------
(* the amenity score, recommender.py lines 6-21, 66-83 and 98-104 *)

\* the requested amenities that the text satisfies: one of the amenity's
\* patterns is found in it
AmenitiesSatisfied(requested, text) ==
    {Strip(Lower(requested[k])) : k \in {n \in 1..Len(requested) :
        \E v \in 1..Len(Variants(Strip(Lower(requested[n])))) :
            Search(Variants(Strip(Lower(requested[n])))[v], text)}}

\* C39: in the list recommend returns, a listing whose amenity text satisfies
\* strictly more of the requested amenities than another listing of the list
\* stands before it
C39_MoreAmenitiesRankedFirst ==
    last.op = "recommend" =>
        \A a, b \in 1..Len(last.outcome.recs) :
            Cardinality(AmenitiesSatisfied(RequestedAmenities(last.criteria.amenities),
                                           last.outcome.recs[a].amenities))
              > Cardinality(AmenitiesSatisfied(RequestedAmenities(last.criteria.amenities),
                                               last.outcome.recs[b].amenities))
            => a < b

\* the same of the number of patterns found, which is what the code counts
MorePatternsRankedFirst ==
    last.op = "recommend" =>
        \A a, b \in 1..Len(last.outcome.recs) :
            amenity_score(_normalize_amenity_patterns(RequestedAmenities(last.criteria.amenities)),
                          last.outcome.recs[a].amenities)
              > amenity_score(_normalize_amenity_patterns(RequestedAmenities(last.criteria.amenities)),
                              last.outcome.recs[b].amenities)
            => a < b

-----------------------------------------------------------------------------
(* a reserve that raises, recommender.py lines 131-181 *)

\* C38: a reserve that raises, for whatever reason, leaves the availability
\* flags in the Recommender's memory as they were
C38_RaiseLeavesMemory ==
    [][(last' # last /\ last'.op = "reserve" /\ last'.outcome.kind # "reservation")
            => df' = df]_vars

\* the same of the reserve calls whose write of listings.csv does not fail
RaiseBeforeWriteLeavesMemory ==
    [][(last' # last /\ last'.op = "reserve" /\ last'.outcome.kind # "reservation"
            /\ last'.io # "catalog_write_fails")
            => df' = df]_vars

\* a listing is refused as no longer available by a Recommender that has made
\* no reservation of it, while listings.csv holds it as Available
RefusedWithoutReservation ==
    /\ last.op = "reserve"
    /\ last.outcome.kind = "error"
    /\ last.outcome.message = "Sorry, this listing is no longer available."
    /\ RowsOfListing(last.listing_id) # {}
    /\ listings_csv[FirstRow(RowsOfListing(last.listing_id))] = Available
    /\ last.listing_id \notin reserved[last.conv]

-----------------------------------------------------------------------------
(* the write of listings.csv, recommender.py lines 178-181 *)

\* C33: a successful reserve changes in listings.csv the availability flag of
\* the reserved listing only: it never writes back as Available a listing
\* that another conversation's reserve has persisted as Booked
C33_OnlyReservedFlagPersisted ==
    [][(last' # last /\ last'.op = "reserve" /\ last'.outcome.kind = "reservation") =>
            \A i \in Rows :
                CATALOG[i].listing_id # last'.listing_id => listings_csv'[i] = listings_csv[i]]_vars

\* the same of a conversation whose Recommender holds what listings.csv holds
FreshConversationPersistsOneFlag ==
    [][(last' # last /\ last'.op = "reserve" /\ last'.outcome.kind = "reservation"
            /\ df[last'.conv] = listings_csv) =>
            \A i \in Rows :
                CATALOG[i].listing_id # last'.listing_id => listings_csv'[i] = listings_csv[i]]_vars

\* no successful reserve writes back as Available what listings.csv holds as Booked
NoBookedWrittenBackAvailable ==
    [][(last' # last /\ last'.op = "reserve" /\ last'.outcome.kind = "reservation") =>
            \A i \in Rows : listings_csv[i] = Booked => listings_csv'[i] = Booked]_vars

-----------------------------------------------------------------------------
(* the front ends' recommend calls, main.py lines 70-108 and streamlit_app.py
   lines 254-276; last_criteria is assigned on the way to each call and
   nowhere else but in a restart *)

\* C35: recommend is invoked only with the finalized payload of a complete
\* agent, whatever text the follow-up generator returns: the criteria of the
\* last recommend call are the agent's payload, and the agent is complete
C35_RecommendOnlyWhenComplete ==
    session.last_criteria # PyNone =>
        /\ _is_complete(booking_info)
        /\ session.last_criteria = _final_json(booking_info).data

\* the same of the calls whose criteria come from a reply that is not the
\* follow-up generator's
RecommendOfFinalJsonWhenComplete ==
    (session.last_criteria # PyNone /\ session.last_criteria # EmptyPayload) =>
        /\ _is_complete(booking_info)
        /\ session.last_criteria = _final_json(booking_info).data

-----------------------------------------------------------------------------
(* the choose stage, main.py lines 87-108 and streamlit_app.py lines 238-276 *)

\* C31: in the choose stage an input that is no selection is a refinement:
\* it goes to the agent, the agent's criteria are updated from it (the
\* extraction is made on it), and the recommendations are computed anew from
\* the agent's criteria
C31_RefinementUpdatesCriteria ==
    [][(session.running /\ session.stage = "choose" /\ op' = "run") =>
            /\ extraction' # "skipped"
            /\ ret'.kind = "final" =>
                    /\ session'.last_criteria = _final_json(booking_info').data
                    /\ session'.last_recs = recommend(df[User], session'.last_criteria, TOP_K)]_vars

\* the same without the update of the criteria: the input goes to the agent
\* and the recommendations are computed anew from the agent's payload
RefinementRecommendsAnew ==
    [][(session.running /\ session.stage = "choose" /\ op' = "run") =>
            (ret'.kind = "final" =>
                    /\ session'.last_criteria = _final_json(booking_info').data
                    /\ session'.last_recs = recommend(df[User], session'.last_criteria, TOP_K))]_vars

\* a complete agent in the choose stage does not read the refinement
CompleteAgentSkipsRefinement ==
    [][(session.running /\ session.stage = "choose" /\ op' = "run" /\ _is_complete(booking_info)) =>
            /\ extraction' = "skipped"
            /\ booking_info' = booking_info]_vars

\* the step takes, in the choose stage, an input that is no selection of a
\* listing: try_parse_selection gave None and the text went to the agent, or
\* it raised
MalformedSelectionStep ==
    /\ session.running
    /\ session.stage = "choose"
    /\ op' = "run" \/ (op' = "select" /\ session'.stage # "confirm_name")

\* C32: a malformed selection input in the choose stage does not advance the
\* conversation: the stage stays choose, no pending listing is set, and no
\* reservation is attempted
C32_MalformedSelectionStays ==
    [][MalformedSelectionStep =>
            /\ session'.stage = "choose"
            /\ session'.pending_listing_id = session.pending_listing_id
            /\ session'.selected_listing = session.selected_listing
            /\ UNCHANGED bookingVars]_vars

\* the same of the command-line front end
CliMalformedSelectionStays ==
    [][(MalformedSelectionStep /\ session.frontend = "cli") =>
            /\ session'.stage = "choose"
            /\ session'.pending_listing_id = session.pending_listing_id
            /\ UNCHANGED bookingVars]_vars

\* the same of Streamlit but for the stage, which is collect when the new
\* recommendations are empty
StreamlitMalformedSelectionSetsNothing ==
    [][(MalformedSelectionStep /\ session.frontend = "streamlit") =>
            /\ session'.stage = IF op' = "run" /\ session'.last_recs = <<>> /\ LooksLikeJson(ret')
                                 THEN "collect" ELSE "choose"
            /\ session'.pending_listing_id = session.pending_listing_id
            /\ session'.selected_listing = session.selected_listing
            /\ UNCHANGED bookingVars]_vars

-----------------------------------------------------------------------------
(* the confirm stages, main.py lines 87-164 and streamlit_app.py lines 278-367 *)

\* C37: in the command-line front end, in the stages confirm_name,
\* confirm_email and confirm_book, pending_listing_id is the id of a listing
\* of last_recs, so that the lookup of the confirm_email stage finds a listing
C37_PendingListingIsInRecs ==
    (session.frontend = "cli" /\ session.stage \in {"confirm_name", "confirm_email", "confirm_book"}) =>
        /\ session.pending_listing_id.t = "int"
        /\ ChosenListing(session.last_recs, session.pending_listing_id.num) # PyNone

\* the command-line conversation is at the booking confirmation of the listing
\* selected by 'book 1', whose id is 101
C37_Witness ==
    /\ session.frontend = "cli"
    /\ session.running
    /\ session.stage = "confirm_book"
    /\ op = "email"
    /\ session.pending_listing_id = PyInt(101)
    /\ Len(session.last_recs) = 1

\* the step calls reserve
ReserveStep == last' # last /\ last'.op = "reserve"

\* C36: reserve is called only in the stage confirm_book on a 'yes', and only
\* after a selection in the stage choose, then a name, then a valid email:
\* confirm_name is entered from choose by a selection only, confirm_email from
\* confirm_name by a name only, confirm_book from confirm_email by a valid
\* email only, and no step of another stage or handler calls reserve
C36_ReserveOnlyAfterIdentity ==
    [][/\ ReserveStep =>
            /\ session.stage = "confirm_book"
            /\ op' = "book"
            /\ session.customer.name.t = "str" /\ session.customer.name.chars # <<>>
            /\ session.customer.email.t = "str" /\ ValidEmail(session.customer.email.chars)
            /\ ListingToReserve(session) # PyNone
       /\ (session'.stage = "confirm_book" /\ session.stage # "confirm_book") =>
            /\ session.stage = "confirm_email"
            /\ op' = "email"
            /\ session'.customer.email.t = "str" /\ ValidEmail(session'.customer.email.chars)
            /\ session'.customer.name = session.customer.name
       /\ (session'.stage = "confirm_email" /\ session.stage # "confirm_email") =>
            /\ session.stage = "confirm_name"
            /\ op' = "name"
            /\ session'.customer.name.t = "str" /\ session'.customer.name.chars # <<>>
       /\ (session'.stage = "confirm_name" /\ session.stage # "confirm_name") =>
            /\ session.stage = "choose"
            /\ op' = "select"
            /\ ListingToReserve(session') # PyNone
            /\ ChosenListing(session.last_recs, ListingToReserve(session').num) # PyNone
       /\ (session.stage \in {"confirm_name", "confirm_email", "confirm_book"}
                /\ session'.stage \in {"confirm_name", "confirm_email", "confirm_book"}) =>
            ListingToReserve(session') = ListingToReserve(session)]_vars

\* a reserve call has returned a reservation for the listing selected, to the
\* customer who gave a name and an email
C36_Witness ==
    /\ op = "book"
    /\ last.op = "reserve"
    /\ last.outcome.kind = "reservation"
    /\ last.listing_id = 101
    /\ session.customer.name = PyStr(<<"A", "n", "n">>)
    /\ session.customer.email = PyStr(<<"a", "@", "b", ".", "c">>)
    /\ session.frontend = "streamlit"
    /\ session.stage = "idle"

====
